---- MODULE Spec2Model ----
(***************************************************************************)
(* State-machine model of vexcl's stencil convolution (vexcl/stencil.hpp)  *)
(* and of the build-configuration stacks and program builder it relies on  *)
(* (vexcl/util.hpp).                                                       *)
(*                                                                         *)
(* Buffers are sequences; the kernels use 0-based indices, so element i of *)
(* a buffer b is b[i + 1].  Device command queues are in-order sequences   *)
(* of commands; the host enqueues, the devices execute asynchronously.     *)
(***************************************************************************)
EXTENDS Integers, Sequences, FiniteSets, TLC

VARIABLES
    device,       \* per device: its context, CL_KERNEL_WORK_GROUP_SIZE and local memory (bytes)
    part,         \* x.part_size(d): partition size per device of the queue list
    x,            \* input vector, one buffer per device
    y,            \* output vector, one buffer per device
    options,      \* device_options<kind>::options: kind -> device -> stack of strings
    pure,         \* history: the same stacks kept as plain LIFO stacks
    compiled,     \* stencil<T>::compiled: context -> bool
    conv_local,   \* stencil<T>::conv_local: context -> kernel
    conv_local_big, \* stencil<T>::conv_local_big: context -> kernel
    conv_remote,  \* stencil<T>::conv_remote: context -> kernel
    wgsize,       \* stencil<T>::wgsize: context -> uint
    exdata,       \* gstencil<T>::exdata<func>: func -> {compiled, conv_local, conv_remote, wgsize}
    build_log,    \* every program.build() call made so far, in order
    filters,      \* the stencil / gstencil objects constructed so far
    hbuf,         \* per filter: host staging buffer
    dbuf,         \* per filter, per device: halo buffer on the device
    event,        \* per filter, per device: completion handle of the last halo copy
    squeue,       \* per filter, per device: commands pending on the secondary queue
    queue,        \* per device: commands pending on the primary queue
    pc,           \* where the host thread is
    cur,          \* the convolve call in progress or last finished
    ret,          \* what the last build-configuration call returned / touched
    ub,           \* some kernel wrote outside its buffer
    limits,       \* how many constructions / calls / stack operations the run makes
    ndebug,       \* the program was built with NDEBUG: assert() expands to nothing
    thread        \* host threads constructing filters side by side: where each one is

vars == <<device, part, x, y, options, pure, compiled, conv_local, conv_local_big,
          conv_remote, wgsize, exdata, build_log, filters, hbuf, dbuf, event,
          squeue, queue, pc, cur, ret, ub, limits, ndebug, thread>>

\* groups of variables, for the frame conditions
env == <<device, part, x, ndebug, thread>>
cache == <<compiled, conv_local, conv_local_big, conv_remote, wgsize, exdata, build_log>>
stacks == <<options, pure>>
buffers == <<hbuf, dbuf>>

-----------------------------------------------------------------------------
(* Bounds of the model *)

MaxDev == 2
MaxPart == 2
MaxLen == 4
MaxStack == 2
MaxOps == 4
MaxFilters == 2
MaxCalls == 2
MaxThreads == 2
ChainDev == 3

(* Program constants *)

SizeofT == 8
MaxWorkgroup == 1024

\* the devices the program runs on; AllDevs is what the specifications below start with
AllDevs == 1..MaxDev
DevIds == DOMAIN device
Contexts == 1..2
Kinds == {"compile_options", "program_header"}
Strings == {"", "-a", "-b"}
Funcs == {"sin", "cos"}
Threads == 1..MaxThreads

\* values the weights are drawn from, and the values an uninitialised or
\* out-of-bounds location may hold
SVals == {1, -2}
JunkVals == {77}
DeviceKinds == { [wgmax |-> 1, lmem |-> 64, klmem |-> 0],
                 [wgmax |-> 4, lmem |-> 64, klmem |-> 0],
                 [wgmax |-> 4, lmem |-> 96, klmem |-> 0] }
Alphas == {0, 2}
Betas == {1, -1}
YSeeds == {0, 5}
RaceOutcomes == {"both", "left", "right"}

-----------------------------------------------------------------------------
(* Helpers *)

Min(a, b) == IF a < b THEN a ELSE b
Max(a, b) == IF a > b THEN a ELSE b

RECURSIVE SumF(_, _, _)
SumF(f, lo, hi) == IF lo > hi THEN 0 ELSE f[lo] + SumF(f, lo + 1, hi)

RECURSIVE Pow2(_)
Pow2(i) == IF i <= 0 THEN 1 ELSE 2 * Pow2(i - 1)

\* read of element i (0-based) of a buffer; outside the buffer the value is junk
At(buf, i, junk) == IF i >= 0 /\ i < Len(buf) THEN buf[i + 1] ELSE junk

\* buf with len elements, starting at 0-based offset off, replaced by src[soff ..]
Splice(buf, off, len, src, soff) ==
    [i \in 1..Len(buf) |->
        IF i - 1 >= off /\ i - 1 < off + len THEN src[soff + (i - 1 - off) + 1] ELSE buf[i]]

\* util.hpp: alignup
alignup(n, m) == ((n + m - 1) \div m) * m

\* util.hpp: kernel_workgroup_size
RECURSIVE HalveTo(_, _)
HalveTo(wgsz, dev_wgsz) == IF wgsz > dev_wgsz THEN HalveTo(wgsz \div 2, dev_wgsz) ELSE wgsz
kernel_workgroup_size(dev_wgsz) == HalveTo(MaxWorkgroup, dev_wgsz)

-----------------------------------------------------------------------------
(* The device kernels of stencil<T> (source text generated in stencil<T>::init) *)

\* faulty variant of Blend: accumulates whatever alpha is
Blend_accumulate(alpha, beta, yold, sum) == yold + beta * sum

\* "if (alpha) y = alpha * y + beta * sum; else y = beta * sum;"
Blend(alpha, beta, yold, sum) ==
    IF alpha # 0 THEN alpha * yold + beta * sum ELSE beta * sum

\* kernel conv_local_big: every work-item g < n sums the taps that fall inside
\* the partition, reading x and s from global memory
conv_local_big_kernel(n, lh, rh, xd, sd, yd, alpha, beta, g_size) ==
    LET term(g) == [k \in -lh..rh |->
                      IF g + k >= 0 /\ g + k < n
                      THEN sd[lh + k + 1] * xd[g + k + 1] ELSE 0]
        sum(g) == SumF(term(g), -lh, rh)
    IN  [i \in 1..Len(yd) |->
           IF i - 1 < g_size /\ i - 1 < n
           THEN Blend(alpha, beta, yd[i], sum(i - 1)) ELSE yd[i]]

\* kernel conv_local: each work-group first stages the weights and its window
\* of x in local memory, then (after the barrier) sums from local memory.
\* A local location nobody wrote, and a global read past the buffer, hold junk.
conv_local_kernel(n, lh, rh, xd, sd, yd, alpha, beta, block_size, g_size, junk) ==
    LET items == 0..(block_size - 1)
        stencil(j) == IF j < block_size THEN sd[j + 1] ELSE junk
        written(b, j) ==
            {xd[b + l + 1] : l \in {l \in items : l = j /\ b + l < n}}
            \cup {xd[b + l - lh + 1] :
                    l \in {l \in items : l - lh = j /\ b + l < n
                                          /\ l < lh /\ b + l >= lh}}
            \cup {At(xd, b + l + rh, junk) :
                    l \in {l \in items : l + rh = j /\ b + l < n
                                          /\ (l + rh < block_size \/ b + l + rh < n)}}
        xbuf(b, j) == IF written(b, j) = {} THEN junk
                      ELSE CHOOSE v \in written(b, j) : TRUE
        term(g) == [k \in -lh..rh |->
                      IF g + k >= 0 /\ g + k < n
                      THEN stencil(lh + k) * xbuf(g - (g % block_size), (g % block_size) + k)
                      ELSE 0]
        sum(g) == SumF(term(g), -lh, rh)
    IN  [i \in 1..Len(yd) |->
           IF i - 1 < g_size /\ i - 1 < n
           THEN Blend(alpha, beta, yd[i], sum(i - 1)) ELSE yd[i]]

\* kernel conv_local, the places of loc_buf work-item g writes before the
\* barrier: stencil = loc_buf, xbuf = loc_buf + lhalo + rhalo + 1 + lhalo
local_writes(g, n, lh, rh, block_size) ==
    LET l == g % block_size
        xbuf == lh + rh + 1 + lh
    IN  (IF l < lh + rh + 1 THEN {l} ELSE {})
        \cup (IF g < n THEN {xbuf + l} ELSE {})
        \cup (IF g < n /\ l < lh /\ g >= lh THEN {xbuf + l - lh} ELSE {})
        \cup (IF g < n /\ (l + rh < block_size \/ g + rh < n) THEN {xbuf + l + rh} ELSE {})

\* and the places it reads after the barrier: stencil[k] (stencil moved up by
\* lhalo) and xbuf[l_id + k]
local_reads(g, n, lh, rh, block_size) ==
    LET l == g % block_size
        xbuf == lh + rh + 1 + lh
        ks == IF g < n THEN {k \in -lh..rh : g + k >= 0 /\ g + k < n} ELSE {}
    IN  {lh + k : k \in ks} \cup {xbuf + l + k : k \in ks}

\* the places of x it reads while filling xbuf
conv_local_x_reads(g, n, lh, rh, block_size) ==
    LET l == g % block_size
    IN  (IF g < n THEN {g} ELSE {})
        \cup (IF g < n /\ l < lh /\ g >= lh THEN {g - lh} ELSE {})
        \cup (IF g < n /\ (l + rh < block_size \/ g + rh < n) THEN {g + rh} ELSE {})

\* kernel conv_local_big, the places of x work-item g reads
conv_local_big_x_reads(g, n, lh, rh) ==
    IF g < n THEN {g + k : k \in {k \in -lh..rh : g + k >= 0 /\ g + k < n}} ELSE {}

\* kernel conv_remote, the two read-modify-write updates of work-item g:
\* "y[g_id] += beta * sum" and "y[n - rhalo + g_id] += beta * sum"
remote_left(g, has_left, lh, xd, h, sd, beta) ==
    beta * SumF([k \in -lh..-1 |->
                   IF g + k < 0
                   THEN sd[lh + k + 1] * (IF has_left THEN h[lh + g + k + 1] ELSE xd[1])
                   ELSE 0], -lh, -1)

remote_right(g, n, has_right, lh, rh, xd, h, sd, beta) ==
    beta * SumF([k \in 1..rh |->
                   IF g + k - rh >= 0
                   THEN sd[lh + k + 1] * (IF has_right THEN h[lh + g + k - rh + 1] ELSE xd[n])
                   ELSE 0], 1, rh)

\* the places of y the work-items 0..g_size-1 of conv_remote update:
\* "y[g_id]" for g_id < lhalo and "y[n - rhalo + g_id]" for g_id < rhalo
conv_remote_y_writes(g_size, n, lh, rh) ==
    {g : g \in {g \in 0..(g_size - 1) : g < lh}}
    \cup {n - rh + g : g \in {g \in 0..(g_size - 1) : g < rh}}

\* output indices (0-based) that two different work-items update without
\* synchronisation: index i is updated by item i (left) and item i - (n - rh) (right)
remote_racy(n, lh, rh) ==
    {i \in 0..(n - 1) : i < lh /\ i - (n - rh) >= 0 /\ i - (n - rh) < rh /\ i # i - (n - rh)}

\* some work-item of conv_remote writes y outside [0, n)
remote_oob(n, lh, rh) == lh > n \/ rh > n

conv_remote_kernel(n, has_left, has_right, lh, rh, xd, h, sd, yd, beta, pick) ==
    [i \in 1..Len(yd) |->
        LET g == i - 1
            isl == g < lh
            isr == g - (n - rh) >= 0 /\ g - (n - rh) < rh
            l == IF isl THEN remote_left(g, has_left, lh, xd, h, sd, beta) ELSE 0
            r == IF isr THEN remote_right(g - (n - rh), n, has_right, lh, rh, xd, h, sd, beta)
                 ELSE 0
        IN  IF g \in remote_racy(n, lh, rh) /\ pick[g] = "left" THEN yd[i] + l
            ELSE IF g \in remote_racy(n, lh, rh) /\ pick[g] = "right" THEN yd[i] + r
            ELSE yd[i] + l + r]

-----------------------------------------------------------------------------
(* The device kernels of gstencil<T> (source text generated in
   gstencil<T>::convolve).  The built-in functions are stood for by integer
   functions with the same parity and the same value at 0. *)

Transform(fn, v) ==
    CASE fn = "sin" -> v * v * v
      [] fn = "cos" -> 1 - v * v

\* kernel conv_local of gstencil: each work-group stages the matrix S
\* (work-items l_id < rows * cols only) and its window of x in local memory;
\* work-items lhalo <= g_id < n - rhalo then sum over the rows.
gconv_local_kernel(n, rows, cols, lh, rh, xd, sd, yd, alpha, beta, fn, block_size, g_size, junk) ==
    LET items == 0..(block_size - 1)
        S(j) == IF j < block_size /\ j < rows * cols THEN sd[j + 1] ELSE junk
        written(b, j) ==
            {xd[b + l + 1] : l \in {l \in items : l = j /\ b + l < n}}
            \cup {xd[b + l - lh + 1] :
                    l \in {l \in items : l - lh = j /\ b + l < n
                                          /\ l < lh /\ b + l >= lh}}
            \cup {At(xd, b + l + rh, junk) :
                    l \in {l \in items : l + rh = j /\ b + l < n
                                          /\ (l + rh < block_size \/ b + l + rh < n)}}
        xbuf(b, j) == IF written(b, j) = {} THEN junk
                      ELSE CHOOSE v \in written(b, j) : TRUE
        scol(g, k) == SumF([j \in -lh..rh |->
                              S(lh + j + k * cols)
                              * xbuf(g - (g % block_size), (g % block_size) + j)],
                           -lh, rh)
        srow(g) == SumF([k \in 0..(rows - 1) |-> Transform(fn, scol(g, k))], 0, rows - 1)
    IN  [i \in 1..Len(yd) |->
           IF i - 1 < g_size /\ i - 1 >= lh /\ i - 1 + rh < n
           THEN Blend(alpha, beta, yd[i], srow(i - 1)) ELSE yd[i]]

\* kernel conv_remote of gstencil: the places of xbuf (after "xbuf += lhalo")
\* work-item g writes in the stage before the left edge, with the place of
\* the extended partition each is filled from
gremote_stage1_writes(g, lh, rh) ==
    IF g < lh THEN {<<g, g>>, <<g + rh, g + rh>>, <<g - lh, g - lh>>} ELSE {}

\* the same for the stage before the right edge
gremote_stage2_writes(g, n, lh, rh) ==
    IF g < rh THEN {<<g, n - rh + g>>, <<g - lh, n - rh + g - lh>>, <<g + rh, n + g>>}
    ELSE {}

\* the places of xbuf work-item g reads in either edge sum: xbuf[g_id + j]
gremote_edge_reads(g, lh, rh) == {g + j : j \in -lh..rh}

\* kernel conv_remote of gstencil, first half: work-items g_id < lhalo stage
\* xbuf[g_id], xbuf[g_id + rhalo] and xbuf[g_id - lhalo] in the local memory of
\* their work-group (lsz work-items each)
gremote_staged1(G, j, n, has_left, lh, rh, xd, h, lsz, junk) ==
    LET mine == {i \in 0..(Max(lh, rh) - 1) : i \div lsz = G /\ i < lh}
        w == {At(xd, i, junk) : i \in {i \in mine : i = j}}
             \cup {At(xd, i + rh, junk) : i \in {i \in mine : i + rh = j}}
             \cup {(IF has_left THEN h[i + 1] ELSE At(xd, 0, junk)) :
                     i \in {i \in mine : i - lh = j}}
    IN  IF w = {} THEN junk ELSE CHOOSE v \in w : TRUE

\* second half: work-items g_id < rhalo stage xbuf[g_id], xbuf[g_id - lhalo]
\* and xbuf[g_id + rhalo]; a location they do not write keeps what the first
\* half left there
gremote_staged2(G, j, n, has_left, has_right, lh, rh, xd, h, lsz, junk) ==
    LET mine == {i \in 0..(Max(lh, rh) - 1) : i \div lsz = G /\ i < rh}
        w == {At(xd, n - rh + i, junk) : i \in {i \in mine : i = j}}
             \cup {At(xd, n - rh + i - lh, junk) : i \in {i \in mine : i - lh = j}}
             \cup {(IF has_right THEN h[lh + i + 1] ELSE At(xd, n - 1, junk)) :
                     i \in {i \in mine : i + rh = j}}
    IN  IF w = {} THEN gremote_staged1(G, j, n, has_left, lh, rh, xd, h, lsz, junk)
        ELSE CHOOSE v \in w : TRUE

gremote_left(g, n, has_left, rows, cols, lh, rh, xd, h, sd, fn, lsz, junk) ==
    SumF([k \in 0..(rows - 1) |->
            Transform(fn, SumF([j \in -lh..rh |->
                sd[lh + j + k * cols + 1]
                * gremote_staged1(g \div lsz, g + j, n, has_left, lh, rh, xd, h, lsz, junk)],
                -lh, rh))],
         0, rows - 1)

\* the sum of the right edge applies the function written in the source text
gremote_right(g, n, has_left, has_right, rows, cols, lh, rh, xd, h, sd, rfn, lsz, junk) ==
    SumF([k \in 0..(rows - 1) |->
            Transform(rfn, SumF([j \in -lh..rh |->
                sd[lh + j + k * cols + 1]
                * gremote_staged2(g \div lsz, g + j, n, has_left, has_right, lh, rh, xd, h,
                                  lsz, junk)],
                -lh, rh))],
         0, rows - 1)

\* some work-item of gstencil's conv_remote accesses y outside [0, n) or local
\* memory outside the wgsize + lhalo + rhalo elements it was given
gremote_oob(n, lh, rh, wgs) == lh > n \/ rh > n \/ lh > wgs \/ rh > wgs

\* output index g is written by work-item g in the first half and by work-item
\* g - (n - rhalo) in the second; the barriers between them fence local memory only
gconv_remote_kernel(n, has_left, has_right, rows, cols, lh, rh, xd, h, sd, yd, alpha, beta, fn, rfn, lsz, pick, junk) ==
    [i \in 1..Len(yd) |->
        LET g == i - 1
            isl == g < lh
            isr == g - (n - rh) >= 0 /\ g - (n - rh) < rh
            l == gremote_left(g, n, has_left, rows, cols, lh, rh, xd, h, sd, fn, lsz, junk)
            r == gremote_right(g - (n - rh), n, has_left, has_right, rows, cols, lh, rh,
                               xd, h, sd, rfn, lsz, junk)
            v1 == Blend(alpha, beta, yd[i], l)
        IN  IF isl /\ isr
            THEN (IF g \in remote_racy(n, lh, rh) /\ pick[g] = "left" THEN v1
                  ELSE IF g \in remote_racy(n, lh, rh) /\ pick[g] = "right"
                       THEN Blend(alpha, beta, yd[i], r)
                  ELSE Blend(alpha, beta, v1, r))
            ELSE IF isl THEN v1
            ELSE IF isr THEN Blend(alpha, beta, yd[i], r)
            ELSE yd[i]]

-----------------------------------------------------------------------------
(* util.hpp: device_options<kind>, the per-device build-configuration stacks *)

\* device_options::get: "if (options[dev].empty()) options[dev].push_back("")",
\* then "return options[dev].back()"
get_effect(opts, kind, dev) ==
    IF opts[kind][dev] = <<>> THEN [opts EXCEPT ![kind][dev] = <<"">>] ELSE opts

get_value(opts, kind, dev) ==
    LET o == get_effect(opts, kind, dev)[kind][dev] IN o[Len(o)]

\* faulty variant of push: one stack shared by both kinds
push_shared(opts, kind, dev, str) ==
    [k \in Kinds |-> [opts[k] EXCEPT ![dev] = Append(@, str)]]

\* faulty variant of pop: removes the oldest entry
pop_front(opts, kind, dev) ==
    IF opts[kind][dev] # <<>>
    THEN [opts EXCEPT ![kind][dev] = Tail(@)]
    ELSE opts

\* device_options::push
push(opts, kind, dev, str) == [opts EXCEPT ![kind][dev] = Append(@, str)]

\* device_options::pop
pop(opts, kind, dev) ==
    IF opts[kind][dev] # <<>>
    THEN [opts EXCEPT ![kind][dev] = SubSeq(@, 1, Len(@) - 1)]
    ELSE opts

-----------------------------------------------------------------------------
(* util.hpp: build_sources, and the source text the filters generate *)

\* context.getInfo<CL_CONTEXT_DEVICES>()[0]: the device that comes first in the
\* device list the context was created with (ord is its place in that list)
FirstDevice(c) == CHOOSE d \in DevIds :
    device[d].ctx = c /\ \A e \in DevIds : device[e].ctx = c => device[d].ord <= device[e].ord

\* standard_kernel_header(dev): the fp64 pragmas followed by the top of the
\* program_header stack of dev
standard_kernel_header(opts, dev) ==
    LET h == get_value(opts, "program_header", dev)
    IN  CASE h = ""   -> "#pragma fp64;"
          [] h = "-a" -> "#pragma fp64;-a"
          [] h = "-b" -> "#pragma fp64;-b"

\* "source << standard_kernel_header << ...": the function is not called, its
\* address is streamed and prints as "1"; the rest is the three kernels above
StencilSource ==
    [header |-> "1", real |-> "double", kernels |-> "stencil", func |-> "",
     right_func |-> ""]

NullKernel == [program |-> 0, name |-> ""]

\* faulty variant of build_sources: a failed build is logged and not rethrown
build_sources_quiet(c, source, ok, st) ==
    [st EXCEPT
        !.options   = get_effect(st.options, "compile_options", FirstDevice(c)),
        !.build_log = Append(st.build_log,
                         [ctx |-> c, source |-> source, ok |-> ok,
                          options |-> get_value(st.options, "compile_options",
                                                FirstDevice(c))]),
        !.thrown    = FALSE]

\* build_sources(context, source): program.build(device, "" + " " +
\* get_compile_options(device[0])); on failure the error is rethrown.
\* st carries the options stacks and the log of builds; ok is the compiler's verdict.
build_sources(c, source, ok, st) ==
    [st EXCEPT
        !.options   = get_effect(st.options, "compile_options", FirstDevice(c)),
        !.build_log = Append(st.build_log,
                         [ctx |-> c, source |-> source, ok |-> ok,
                          options |-> get_value(st.options, "compile_options",
                                                FirstDevice(c))]),
        !.thrown    = ~ok]

-----------------------------------------------------------------------------
(* stencil<T>::init *)

\* faulty variant of shrink: the size is halved once at most
shrink_once(w, size, smem) ==
    IF w >= size /\ w + 2 * size > smem THEN w \div 2 ELSE w

\* "while (wgs[d] >= data.size() && wgs[d] + 2 * data.size() > smem) wgs[d] /= 2;"
RECURSIVE shrink(_, _, _)
shrink(w, size, smem) ==
    IF w >= size /\ w + 2 * size > smem THEN shrink(w \div 2, size, smem) ELSE w

\* the planner's result for one device: <<fast_kernel[d], wgs[d]>>
plan(w0, size, smem) ==
    IF shrink(w0, size, smem) < size
    THEN [fast_kernel |-> FALSE, wgs |-> w0]
    ELSE [fast_kernel |-> TRUE, wgs |-> shrink(w0, size, smem)]

\* faulty variant of compile_stencil: builds without consulting compiled[context()]
compile_stencil_always(d, ok, st) ==
    LET c == device[d].ctx
        b == build_sources(c, StencilSource, ok[c], st)
        p == Len(b.build_log)
    IN  IF b.thrown THEN b
        ELSE [b EXCEPT
                !.conv_local[c]     = [program |-> p, name |-> "conv_local"],
                !.conv_local_big[c] = [program |-> p, name |-> "conv_local_big"],
                !.conv_remote[c]    = [program |-> p, name |-> "conv_remote"],
                !.wgsize[c]         = kernel_workgroup_size(device[d].wgmax),
                !.compiled[c]       = TRUE]

\* faulty variant of compile_stencil: rebuilds when the compile options on top
\* of the stack are no longer those the cached program was built with
compile_stencil_stale(d, ok, st) ==
    LET c == device[d].ctx
        b == build_sources(c, StencilSource, ok[c], st)
        p == Len(b.build_log)
        fresh == st.compiled[c] /\
                 st.build_log[st.conv_local[c].program].options =
                     get_value(st.options, "compile_options", FirstDevice(c))
    IN  IF fresh THEN st
        ELSE IF b.thrown THEN b
        ELSE [b EXCEPT
                !.conv_local[c]     = [program |-> p, name |-> "conv_local"],
                !.conv_local_big[c] = [program |-> p, name |-> "conv_local_big"],
                !.conv_remote[c]    = [program |-> p, name |-> "conv_remote"],
                !.wgsize[c]         = kernel_workgroup_size(device[d].wgmax),
                !.compiled[c]       = TRUE]

\* "if (!compiled[context()]) { ... compiled[context()] = true; }" for device d
compile_stencil(d, ok, st) ==
    LET c == device[d].ctx
        b == build_sources(c, StencilSource, ok[c], st)
        p == Len(b.build_log)
    IN  IF st.compiled[c] THEN st
        ELSE IF b.thrown THEN b
        ELSE [b EXCEPT
                !.conv_local[c]     = [program |-> p, name |-> "conv_local"],
                !.conv_local_big[c] = [program |-> p, name |-> "conv_local_big"],
                !.conv_remote[c]    = [program |-> p, name |-> "conv_remote"],
                !.wgsize[c]         = kernel_workgroup_size(device[d].wgmax),
                !.compiled[c]       = TRUE]

\* the loop over the devices of the queue list: compile, plan, then create
\* s[d]; clCreateBuffer of zero bytes fails (CL_INVALID_BUFFER_SIZE, thrown)
RECURSIVE init_loop(_, _, _, _)
init_loop(d, size, ok, st) ==
    IF d > Len(part) THEN st
    ELSE LET c == device[d].ctx
             s1 == compile_stencil(d, ok, st)
             pl == plan(s1.wgsize[c], size,
                        (device[d].lmem - device[d].klmem) \div SizeofT)
         IN  IF s1.thrown THEN s1
             ELSE IF size = 0 THEN [s1 EXCEPT !.thrown = TRUE]
             ELSE init_loop(d + 1, size, ok,
                    [s1 EXCEPT !.fast_kernel = Append(@, pl.fast_kernel),
                               !.wgs = Append(@, pl.wgs)])

HostState ==
    [options |-> options, compiled |-> compiled, conv_local |-> conv_local,
     conv_local_big |-> conv_local_big, conv_remote |-> conv_remote,
     wgsize |-> wgsize, build_log |-> build_log, thrown |-> FALSE,
     fast_kernel |-> <<>>, wgs |-> <<>>]

\* faulty variant of right_halo: one element too wide
right_halo_wide(size, center) == size - center

\* "lhalo = center; rhalo = data.size() - center - 1;"
left_halo(size, center) == center
right_halo(size, center) == size - center - 1

\* faulty variant of makes_squeue: secondary queues for every filter
makes_squeue_always(lhalo, rhalo) == TRUE

\* "if (lhalo + rhalo > 0)" around "squeue[d] = cl::CommandQueue(context, device)"
makes_squeue(lhalo, rhalo) == lhalo + rhalo > 0

stencil_args_ok(data, center) == Len(part) > 0 /\ Len(data) > 0 /\ center < Len(data)

\* faulty variant of stencil_init: fast_kernel and wgs kept in storage shared
\* by all filters, like the kernel cache
stencil_init_shared(data, center, ok, junk) ==
    /\ pc = "idle"
    /\ limits.filters > 0
    /\ limits' = [limits EXCEPT !.filters = @ - 1]
    /\ IF ~stencil_args_ok(data, center) /\ ~ndebug
       THEN /\ pc' = "aborted"
            /\ UNCHANGED <<options, compiled, conv_local, conv_local_big, conv_remote,
                           wgsize, build_log, filters, hbuf, dbuf, event, squeue>>
       ELSE LET lhalo == left_halo(Len(data), center)
                rhalo == right_halo(Len(data), center)
                st == init_loop(1, Len(data), ok, HostState)
                f == Len(filters) + 1
            IN  /\ options' = st.options
                /\ compiled' = st.compiled
                /\ conv_local' = st.conv_local
                /\ conv_local_big' = st.conv_local_big
                /\ conv_remote' = st.conv_remote
                /\ wgsize' = st.wgsize
                /\ build_log' = st.build_log
                /\ pc' = "idle"
                /\ IF st.thrown
                   THEN UNCHANGED <<filters, hbuf, dbuf, event, squeue>>
                   ELSE /\ filters' = Append([g \in 1..Len(filters) |->
                                        IF filters[g].kind = "stencil"
                                        THEN [filters[g] EXCEPT
                                                 !.fast_kernel = st.fast_kernel,
                                                 !.wgs = st.wgs]
                                        ELSE filters[g]],
                               [kind |-> "stencil", lhalo |-> lhalo, rhalo |-> rhalo,
                                s |-> data, fast_kernel |-> st.fast_kernel,
                                wgs |-> st.wgs, has_squeue |-> makes_squeue(lhalo, rhalo)])
                        /\ hbuf' = Append(hbuf,
                               [i \in 1..(Len(part) * (lhalo + rhalo)) |-> 0])
                        /\ dbuf' = Append(dbuf,
                               [d \in 1..Len(part) |-> [i \in 1..(lhalo + rhalo) |-> junk]])
                        /\ event' = Append(event, [d \in 1..Len(part) |-> "null"])
                        /\ squeue' = Append(squeue, [d \in 1..Len(part) |-> <<>>])
    /\ ret' = [op |-> "stencil", size |-> Len(data), center |-> center,
               made |-> Len(filters') > Len(filters),
               valid |-> stencil_args_ok(data, center)]
    /\ UNCHANGED <<env, y, pure, exdata, queue, cur, ub>>

\* stencil<T>::stencil(queue, st, center): the asserts, the halo widths, the
\* per-device loop, the staging buffer and (with halos) the secondary queues
\* and halo buffers.  A failed assert aborts the process, unless the build
\* defines NDEBUG: then the constructor goes on with the arguments as they
\* are.  A failed build throws out of the constructor and no filter exists.
stencil_init(data, center, ok, junk) ==
    /\ pc = "idle"
    /\ limits.filters > 0
    /\ limits' = [limits EXCEPT !.filters = @ - 1]
    /\ IF ~stencil_args_ok(data, center) /\ ~ndebug
       THEN /\ pc' = "aborted"
            /\ UNCHANGED <<options, compiled, conv_local, conv_local_big, conv_remote,
                           wgsize, build_log, filters, hbuf, dbuf, event, squeue>>
       ELSE LET lhalo == left_halo(Len(data), center)
                rhalo == right_halo(Len(data), center)
                st == init_loop(1, Len(data), ok, HostState)
                f == Len(filters) + 1
            IN  /\ options' = st.options
                /\ compiled' = st.compiled
                /\ conv_local' = st.conv_local
                /\ conv_local_big' = st.conv_local_big
                /\ conv_remote' = st.conv_remote
                /\ wgsize' = st.wgsize
                /\ build_log' = st.build_log
                /\ pc' = "idle"
                /\ IF st.thrown
                   THEN UNCHANGED <<filters, hbuf, dbuf, event, squeue>>
                   ELSE /\ filters' = Append(filters,
                               [kind |-> "stencil", lhalo |-> lhalo, rhalo |-> rhalo,
                                s |-> data, fast_kernel |-> st.fast_kernel,
                                wgs |-> st.wgs, has_squeue |-> makes_squeue(lhalo, rhalo)])
                        /\ hbuf' = Append(hbuf,
                               [i \in 1..(Len(part) * (lhalo + rhalo)) |-> 0])
                        /\ dbuf' = Append(dbuf,
                               [d \in 1..Len(part) |-> [i \in 1..(lhalo + rhalo) |-> junk]])
                        /\ event' = Append(event, [d \in 1..Len(part) |-> "null"])
                        /\ squeue' = Append(squeue, [d \in 1..Len(part) |-> <<>>])
    /\ ret' = [op |-> "stencil", size |-> Len(data), center |-> center,
               made |-> Len(filters') > Len(filters),
               valid |-> stencil_args_ok(data, center)]
    /\ UNCHANGED <<env, y, pure, exdata, queue, cur, ub>>

-----------------------------------------------------------------------------
(* stencil<T>::convolve, host side *)

NDev == Len(part)

\* faulty variant of halo_reads_of: the two widths exchanged
halo_reads_of_swapped(f, d) ==
    LET lh == filters[f].lhalo
        rh == filters[f].rhalo
        head == IF d - 1 > 0 /\ lh > 0
                THEN <<[op |-> "read", f |-> f, d |-> d, off |-> 0, len |-> lh,
                        hoff |-> (d - 1) * (rh + lh), ev |-> TRUE,
                        valid |-> lh <= part[d]]>>
                ELSE <<>>
        tail == IF d < NDev /\ rh > 0
                THEN <<[op |-> "read", f |-> f, d |-> d, off |-> part[d] - rh, len |-> rh,
                        hoff |-> (d - 1) * (rh + lh) + lh, ev |-> TRUE,
                        valid |-> part[d] - rh >= 0]>>
                ELSE <<>>
    IN  head \o tail

\* the halo copies of lines 411-426 in issue order; d is 1-based here, the
\* source's d is d - 1.  A copy whose region lies outside x(d) makes
\* enqueueReadBuffer fail with CL_INVALID_VALUE (thrown as cl::Error).
halo_reads_of(f, d) ==
    LET lh == filters[f].lhalo
        rh == filters[f].rhalo
        head == IF d - 1 > 0 /\ rh > 0
                THEN <<[op |-> "read", f |-> f, d |-> d, off |-> 0, len |-> rh,
                        hoff |-> (d - 1) * (rh + lh), ev |-> TRUE,
                        valid |-> rh <= part[d]]>>
                ELSE <<>>
        tail == IF d < NDev /\ lh > 0
                THEN <<[op |-> "read", f |-> f, d |-> d, off |-> part[d] - lh, len |-> lh,
                        hoff |-> (d - 1) * (rh + lh) + rh, ev |-> TRUE,
                        valid |-> part[d] - lh >= 0]>>
                ELSE <<>>
    IN  head \o tail

RECURSIVE halo_reads(_, _)
halo_reads(f, d) ==
    IF d > NDev \/ ~(NDev > 1 /\ filters[f].lhalo + filters[f].rhalo > 0) THEN <<>>
    ELSE halo_reads_of(f, d) \o halo_reads(f, d + 1)

\* the commands enqueued before the first failing one
RECURSIVE issued(_)
issued(cmds) ==
    IF cmds = <<>> \/ ~Head(cmds).valid THEN <<>>
    ELSE <<Head(cmds)>> \o issued(Tail(cmds))

OnDevice(cmds, d) == SelectSeq(cmds, LAMBDA c : c.d = d)

\* faulty variant of enqueue_reads: the handle names the first of the new commands
enqueue_reads_first(sq, new) ==
    IF new = <<>> THEN sq
    ELSE [i \in 1..Len(sq) |-> [sq[i] EXCEPT !.ev = FALSE]]
         \o [i \in 1..Len(new) |-> [new[i] EXCEPT !.ev = (i = 1)]]

\* enqueueReadBuffer(..., &event[d]): the handle now names the new command only
enqueue_reads(sq, new) ==
    IF new = <<>> THEN sq
    ELSE [i \in 1..Len(sq) |-> [sq[i] EXCEPT !.ev = FALSE]]
         \o [i \in 1..Len(new) |-> [new[i] EXCEPT !.ev = (i = Len(new))]]

\* lines 411-426: start reading the halos
convolve_read_halos(f, alpha, beta) ==
    /\ pc = "idle"
    /\ limits.calls > 0
    /\ f \in 1..Len(filters)
    /\ filters[f].kind = "stencil"
    /\ limits' = [limits EXCEPT !.calls = @ - 1]
    /\ LET all == halo_reads(f, 1)
           new == issued(all)
           failed == Len(new) < Len(all)
       IN  /\ squeue' = [squeue EXCEPT ![f] =
                  [d \in 1..NDev |-> enqueue_reads(squeue[f][d], OnDevice(new, d))]]
           /\ event' = [event EXCEPT ![f] =
                  [d \in 1..NDev |-> IF OnDevice(new, d) # <<>> THEN "queued"
                                     ELSE event[f][d]]]
           /\ cur' = [f |-> f, func |-> "", alpha |-> alpha, beta |-> beta, y0 |-> y,
                      status |-> IF failed THEN "cl_error" ELSE "running"]
           /\ pc' = IF failed THEN "idle" ELSE "interior"
    /\ UNCHANGED <<env, y, stacks, cache, filters, buffers, queue, ret, ub>>

\* faulty variant of interior_cmd: local memory for the work-group's elements
\* and the weights only
interior_cmd_small(f, d) ==
    [op |-> IF filters[f].fast_kernel[d] THEN "conv_local" ELSE "conv_local_big",
     kernel |-> IF filters[f].fast_kernel[d] THEN conv_local[device[d].ctx]
                ELSE conv_local_big[device[d].ctx],
     f |-> f, d |-> d, n |-> part[d],
     lhalo |-> filters[f].lhalo, rhalo |-> filters[f].rhalo,
     alpha |-> cur.alpha, beta |-> cur.beta,
     lmem |-> IF filters[f].fast_kernel[d]
              THEN (filters[f].wgs[d] + filters[f].lhalo + filters[f].rhalo + 1) * SizeofT
              ELSE 0,
     wgs |-> filters[f].wgs[d],
     g_size |-> alignup(part[d], filters[f].wgs[d])]

\* lines 428-452: launch the interior kernel on every device
interior_cmd(f, d) ==
    [op |-> IF filters[f].fast_kernel[d] THEN "conv_local" ELSE "conv_local_big",
     kernel |-> IF filters[f].fast_kernel[d] THEN conv_local[device[d].ctx]
                ELSE conv_local_big[device[d].ctx],
     f |-> f, d |-> d, n |-> part[d],
     lhalo |-> filters[f].lhalo, rhalo |-> filters[f].rhalo,
     alpha |-> cur.alpha, beta |-> cur.beta,
     lmem |-> IF filters[f].fast_kernel[d]
              THEN (filters[f].wgs[d] + 2 * (filters[f].lhalo + filters[f].rhalo) + 1) * SizeofT
              ELSE 0,
     wgs |-> filters[f].wgs[d],
     g_size |-> alignup(part[d], filters[f].wgs[d])]

\* faulty variant of has_halo: the boundary phase runs for every filter
has_halo_always(f) == TRUE

\* line 454: "if (lhalo + rhalo > 0)"
has_halo(f) == filters[f].lhalo + filters[f].rhalo > 0

\* faulty variant of convolve_interior: the host goes on without launching
convolve_interior_skip ==
    /\ pc = "interior"
    /\ IF has_halo(cur.f)
       THEN pc' = "wait" /\ cur' = cur
       ELSE pc' = "idle" /\ cur' = [cur EXCEPT !.status = "ok"]
    /\ UNCHANGED <<env, y, stacks, cache, filters, buffers, event, squeue, queue, ret, ub,
                   limits>>

convolve_interior ==
    /\ pc = "interior"
    /\ queue' = [d \in DevIds |->
                   IF d <= NDev THEN Append(queue[d], interior_cmd(cur.f, d))
                   ELSE queue[d]]
    /\ IF has_halo(cur.f)
       THEN pc' = "wait" /\ cur' = cur
       ELSE pc' = "idle" /\ cur' = [cur EXCEPT !.status = "ok"]
    /\ UNCHANGED <<env, y, stacks, cache, filters, buffers, event, squeue, ret, ub,
                   limits>>

\* faulty variant of waits_on: the host waits on the handle of every device
waits_on_all(f, d) == TRUE

\* lines 455-458: the devices whose handle the host waits on
waits_on(f, d) ==
    NDev > 1 /\ ((d - 1 > 0 /\ filters[f].rhalo > 0) \/ (d < NDev /\ filters[f].lhalo > 0))

\* event[d].wait() for each of them: returns once the command the handle names is done
convolve_wait ==
    /\ pc = "wait"
    /\ \A d \in 1..NDev : waits_on(cur.f, d) => event[cur.f][d] = "complete"
    /\ pc' = "boundary"
    /\ UNCHANGED <<env, y, stacks, cache, filters, buffers, event, squeue, queue, cur,
                   ret, ub, limits>>

\* faulty variant of boundary_cmds: the writes take the device's own staging
\* regions instead of its neighbours'
boundary_cmds_own(f, d) ==
    LET lh == filters[f].lhalo
        rh == filters[f].rhalo
        wl == IF d - 1 > 0 /\ lh > 0
              THEN <<[op |-> "write", f |-> f, d |-> d, doff |-> 0, len |-> lh,
                      hoff |-> (d - 1) * (rh + lh) + rh]>>
              ELSE <<>>
        wr == IF d < NDev /\ rh > 0
              THEN <<[op |-> "write", f |-> f, d |-> d, doff |-> lh, len |-> rh,
                      hoff |-> (d - 1) * (rh + lh)]>>
              ELSE <<>>
    IN  wl \o wr \o
        <<[op |-> "conv_remote", kernel |-> conv_remote[device[d].ctx],
           f |-> f, d |-> d, n |-> part[d],
           has_left |-> d - 1 > 0, has_right |-> d < NDev,
           lhalo |-> lh, rhalo |-> rh, beta |-> cur.beta,
           g_size |-> Max(lh, rh)]>>

\* faulty variant of boundary_cmds: has_left and has_right exchanged
boundary_cmds_flags(f, d) ==
    LET lh == filters[f].lhalo
        rh == filters[f].rhalo
        wl == IF d - 1 > 0 /\ lh > 0
              THEN <<[op |-> "write", f |-> f, d |-> d, doff |-> 0, len |-> lh,
                      hoff |-> (d - 2) * (rh + lh) + rh]>>
              ELSE <<>>
        wr == IF d < NDev /\ rh > 0
              THEN <<[op |-> "write", f |-> f, d |-> d, doff |-> lh, len |-> rh,
                      hoff |-> d * (rh + lh)]>>
              ELSE <<>>
    IN  wl \o wr \o
        <<[op |-> "conv_remote", kernel |-> conv_remote[device[d].ctx],
           f |-> f, d |-> d, n |-> part[d],
           has_left |-> d < NDev, has_right |-> d - 1 > 0,
           lhalo |-> lh, rhalo |-> rh, beta |-> cur.beta,
           g_size |-> Max(lh, rh)]>>

\* faulty variant of boundary_cmds: conv_remote is launched before the writes
boundary_cmds_early(f, d) ==
    LET lh == filters[f].lhalo
        rh == filters[f].rhalo
        wl == IF d - 1 > 0 /\ lh > 0
              THEN <<[op |-> "write", f |-> f, d |-> d, doff |-> 0, len |-> lh,
                      hoff |-> (d - 2) * (rh + lh) + rh]>>
              ELSE <<>>
        wr == IF d < NDev /\ rh > 0
              THEN <<[op |-> "write", f |-> f, d |-> d, doff |-> lh, len |-> rh,
                      hoff |-> d * (rh + lh)]>>
              ELSE <<>>
    IN  <<[op |-> "conv_remote", kernel |-> conv_remote[device[d].ctx],
           f |-> f, d |-> d, n |-> part[d],
           has_left |-> d - 1 > 0, has_right |-> d < NDev,
           lhalo |-> lh, rhalo |-> rh, beta |-> cur.beta,
           g_size |-> Max(lh, rh)]>> \o wl \o wr

\* lines 460-490 for device d: the non-blocking halo-buffer writes, then conv_remote
boundary_cmds(f, d) ==
    LET lh == filters[f].lhalo
        rh == filters[f].rhalo
        wl == IF d - 1 > 0 /\ lh > 0
              THEN <<[op |-> "write", f |-> f, d |-> d, doff |-> 0, len |-> lh,
                      hoff |-> (d - 2) * (rh + lh) + rh]>>
              ELSE <<>>
        wr == IF d < NDev /\ rh > 0
              THEN <<[op |-> "write", f |-> f, d |-> d, doff |-> lh, len |-> rh,
                      hoff |-> d * (rh + lh)]>>
              ELSE <<>>
    IN  wl \o wr \o
        <<[op |-> "conv_remote", kernel |-> conv_remote[device[d].ctx],
           f |-> f, d |-> d, n |-> part[d],
           has_left |-> d - 1 > 0, has_right |-> d < NDev,
           lhalo |-> lh, rhalo |-> rh, beta |-> cur.beta,
           g_size |-> Max(lh, rh)]>>

convolve_boundary ==
    /\ pc = "boundary"
    /\ queue' = [d \in DevIds |->
                   IF d <= NDev THEN queue[d] \o boundary_cmds(cur.f, d) ELSE queue[d]]
    /\ pc' = "idle"
    /\ cur' = [cur EXCEPT !.status = "ok"]
    /\ UNCHANGED <<env, y, stacks, cache, filters, buffers, event, squeue, ret, ub,
                   limits>>

-----------------------------------------------------------------------------
(* gstencil<T>: construction and convolve<func>, host side *)

\* gstencil<T>::gstencil(queue, rows, cols, center, begin, end) and init: the
\* asserts, the halo widths, the staging buffer, the matrix on every device
\* and (with halos) the secondary queues and halo buffers.  Nothing is compiled.
\* With NDEBUG the asserts are gone: hbuf.resize throws for cols = 0 (the
\* size is queue.size() * -1 as a size_t) and clCreateBuffer for empty data.
gstencil_args_ok(rows, cols, center, data) ==
    rows > 0 /\ cols > 0 /\ rows * cols = Len(data) /\ center < cols

gstencil_init(rows, cols, center, data, junk) ==
    /\ pc = "idle"
    /\ limits.filters > 0
    /\ limits' = [limits EXCEPT !.filters = @ - 1]
    /\ IF ~gstencil_args_ok(rows, cols, center, data) /\ ~ndebug
       THEN /\ pc' = "aborted"
            /\ UNCHANGED <<filters, hbuf, dbuf, event, squeue>>
       ELSE IF cols = 0 \/ Len(data) = 0
       THEN /\ pc' = "idle"
            /\ UNCHANGED <<filters, hbuf, dbuf, event, squeue>>
       ELSE LET lhalo == left_halo(cols, center)
                rhalo == right_halo(cols, center)
            IN  /\ pc' = "idle"
                /\ filters' = Append(filters,
                       [kind |-> "gstencil", lhalo |-> lhalo, rhalo |-> rhalo,
                        s |-> data, rows |-> rows, cols |-> cols,
                        has_squeue |-> makes_squeue(lhalo, rhalo)])
                /\ hbuf' = Append(hbuf, [i \in 1..(Len(part) * (lhalo + rhalo)) |-> 0])
                /\ dbuf' = Append(dbuf,
                       [d \in 1..Len(part) |-> [i \in 1..(lhalo + rhalo) |-> junk]])
                /\ event' = Append(event, [d \in 1..Len(part) |-> "null"])
                /\ squeue' = Append(squeue, [d \in 1..Len(part) |-> <<>>])
    /\ ret' = [op |-> "gstencil", size |-> cols, center |-> center,
               made |-> Len(filters') > Len(filters),
               valid |-> gstencil_args_ok(rows, cols, center, data)]
    /\ UNCHANGED <<env, y, stacks, cache, queue, cur, ub>>

\* the source text of convolve<func>: the header as in stencil<T>::init, func in
\* conv_local and in the left half of conv_remote, "sin" in its right half
GStencilSource(fn) ==
    [header |-> "1", real |-> "double", kernels |-> "gstencil", func |-> fn,
     right_func |-> "sin"]

\* lines 760-882: "if (!exdata<func>::compiled[context()]) { ... }" for each device
RECURSIVE gcompile_loop(_, _, _, _)
gcompile_loop(d, fn, ok, st) ==
    IF d > Len(part) THEN st
    ELSE LET c == device[d].ctx
             b == build_sources(c, GStencilSource(fn), ok[c], st)
             p == Len(b.build_log)
         IN  IF st.ex.compiled[c] THEN gcompile_loop(d + 1, fn, ok, st)
             ELSE IF b.thrown THEN b
             ELSE gcompile_loop(d + 1, fn, ok,
                    [b EXCEPT
                       !.ex.conv_local[c]  = [program |-> p, name |-> "conv_local"],
                       !.ex.conv_remote[c] = [program |-> p, name |-> "conv_remote"],
                       !.ex.wgsize[c]      = kernel_workgroup_size(device[d].wgmax),
                       !.ex.compiled[c]    = TRUE])

\* faulty variant of gconvolve_start: one cache entry for all transforms
gconvolve_start_unkeyed(f, fn, alpha, beta, ok) ==
    /\ pc = "idle"
    /\ limits.calls > 0
    /\ f \in 1..Len(filters)
    /\ filters[f].kind = "gstencil"
    /\ limits' = [limits EXCEPT !.calls = @ - 1]
    /\ LET st == gcompile_loop(1, fn, ok,
                    [options |-> options, build_log |-> build_log, thrown |-> FALSE,
                     ex |-> exdata[fn]])
           all == IF st.thrown THEN <<>> ELSE halo_reads(f, 1)
           new == issued(all)
           failed == st.thrown \/ Len(new) < Len(all)
       IN  /\ options' = st.options
           /\ build_log' = st.build_log
           /\ exdata' = [g \in Funcs |-> st.ex]
           /\ squeue' = [squeue EXCEPT ![f] =
                  [d \in 1..NDev |-> enqueue_reads(squeue[f][d], OnDevice(new, d))]]
           /\ event' = [event EXCEPT ![f] =
                  [d \in 1..NDev |-> IF OnDevice(new, d) # <<>> THEN "queued"
                                     ELSE event[f][d]]]
           /\ cur' = [f |-> f, func |-> fn, alpha |-> alpha, beta |-> beta, y0 |-> y,
                      status |-> IF failed THEN "cl_error" ELSE "running"]
           /\ pc' = IF failed THEN "idle" ELSE "g_interior"
    /\ UNCHANGED <<env, y, pure, compiled, conv_local, conv_local_big, conv_remote, wgsize,
                   filters, buffers, queue, ret, ub>>

\* lines 760-903: compile where needed, then start reading the halos
gconvolve_start(f, fn, alpha, beta, ok) ==
    /\ pc = "idle"
    /\ limits.calls > 0
    /\ f \in 1..Len(filters)
    /\ filters[f].kind = "gstencil"
    /\ limits' = [limits EXCEPT !.calls = @ - 1]
    /\ LET st == gcompile_loop(1, fn, ok,
                    [options |-> options, build_log |-> build_log, thrown |-> FALSE,
                     ex |-> exdata[fn]])
           all == IF st.thrown THEN <<>> ELSE halo_reads(f, 1)
           new == issued(all)
           failed == st.thrown \/ Len(new) < Len(all)
       IN  /\ options' = st.options
           /\ build_log' = st.build_log
           /\ exdata' = [exdata EXCEPT ![fn] = st.ex]
           /\ squeue' = [squeue EXCEPT ![f] =
                  [d \in 1..NDev |-> enqueue_reads(squeue[f][d], OnDevice(new, d))]]
           /\ event' = [event EXCEPT ![f] =
                  [d \in 1..NDev |-> IF OnDevice(new, d) # <<>> THEN "queued"
                                     ELSE event[f][d]]]
           /\ cur' = [f |-> f, func |-> fn, alpha |-> alpha, beta |-> beta, y0 |-> y,
                      status |-> IF failed THEN "cl_error" ELSE "running"]
           /\ pc' = IF failed THEN "idle" ELSE "g_interior"
    /\ UNCHANGED <<env, y, pure, compiled, conv_local, conv_local_big, conv_remote, wgsize,
                   filters, buffers, queue, ret, ub>>

\* lines 905-938 for device d
ginterior_cmd(f, d) ==
    LET ex == exdata[cur.func]
        c == device[d].ctx
    IN  [op |-> "gconv_local", kernel |-> ex.conv_local[c],
         f |-> f, d |-> d, n |-> part[d],
         rows |-> filters[f].rows, cols |-> filters[f].cols,
         lhalo |-> filters[f].lhalo, rhalo |-> filters[f].rhalo,
         alpha |-> cur.alpha, beta |-> cur.beta,
         lmem |-> SizeofT * (ex.wgsize[c] + filters[f].lhalo + filters[f].rhalo
                             + filters[f].rows * filters[f].cols),
         wgs |-> ex.wgsize[c],
         g_size |-> alignup(part[d], ex.wgsize[c])]

\* "assert(l_mem_size <= CL_DEVICE_LOCAL_MEM_SIZE - CL_KERNEL_LOCAL_MEM_SIZE)"
glmem_fits(f, d) == ginterior_cmd(f, d).lmem <= device[d].lmem - device[d].klmem

\* lines 905-938: launch the interior kernel on every device; the assert of
\* the first device that lacks the local memory aborts the process
gconvolve_interior ==
    /\ pc = "g_interior"
    /\ LET bad == {d \in 1..NDev : ~glmem_fits(cur.f, d)}
           stop == IF bad = {} THEN NDev + 1 ELSE CHOOSE d \in bad : \A e \in bad : d <= e
       IN  /\ queue' = [d \in DevIds |->
                          IF d < stop /\ d <= NDev
                          THEN Append(queue[d], ginterior_cmd(cur.f, d))
                          ELSE queue[d]]
           /\ IF bad # {} THEN pc' = "aborted" /\ cur' = cur
              ELSE IF has_halo(cur.f) THEN pc' = "g_wait" /\ cur' = cur
              ELSE pc' = "idle" /\ cur' = [cur EXCEPT !.status = "ok"]
    /\ UNCHANGED <<env, y, stacks, cache, filters, buffers, event, squeue, ret, ub,
                   limits>>

\* lines 942-945
gconvolve_wait ==
    /\ pc = "g_wait"
    /\ \A d \in 1..NDev : waits_on(cur.f, d) => event[cur.f][d] = "complete"
    /\ pc' = "g_boundary"
    /\ UNCHANGED <<env, y, stacks, cache, filters, buffers, event, squeue, queue, cur,
                   ret, ub, limits>>

\* lines 947-980 for device d
gboundary_cmds(f, d) ==
    LET lh == filters[f].lhalo
        rh == filters[f].rhalo
        ex == exdata[cur.func]
        c == device[d].ctx
        wl == IF d - 1 > 0 /\ lh > 0
              THEN <<[op |-> "write", f |-> f, d |-> d, doff |-> 0, len |-> lh,
                      hoff |-> (d - 2) * (rh + lh) + rh]>>
              ELSE <<>>
        wr == IF d < NDev /\ rh > 0
              THEN <<[op |-> "write", f |-> f, d |-> d, doff |-> lh, len |-> rh,
                      hoff |-> d * (rh + lh)]>>
              ELSE <<>>
    IN  wl \o wr \o
        <<[op |-> "gconv_remote", kernel |-> ex.conv_remote[c],
           f |-> f, d |-> d, n |-> part[d],
           has_left |-> d - 1 > 0, has_right |-> d < NDev,
           rows |-> filters[f].rows, cols |-> filters[f].cols,
           lhalo |-> lh, rhalo |-> rh, alpha |-> cur.alpha, beta |-> cur.beta,
           lmem |-> SizeofT * (ex.wgsize[c] + lh + rh),
           wgs |-> ex.wgsize[c],
           g_size |-> Max(lh, rh)]>>

gconvolve_boundary ==
    /\ pc = "g_boundary"
    /\ queue' = [d \in DevIds |->
                   IF d <= NDev THEN queue[d] \o gboundary_cmds(cur.f, d) ELSE queue[d]]
    /\ pc' = "idle"
    /\ cur' = [cur EXCEPT !.status = "ok"]
    /\ UNCHANGED <<env, y, stacks, cache, filters, buffers, event, squeue, ret, ub,
                   limits>>

-----------------------------------------------------------------------------
(* The devices: each queue executes its commands in submission order *)

\* secondary queue of filter f on device d: a halo copy from x(d) into hbuf
squeue_exec(f, d) ==
    /\ f \in 1..Len(filters) /\ d \in 1..NDev
    /\ squeue[f][d] # <<>>
    /\ LET c == Head(squeue[f][d])
       IN  /\ hbuf' = [hbuf EXCEPT ![f] = Splice(@, c.hoff, c.len, x[d], c.off)]
           /\ event' = IF c.ev THEN [event EXCEPT ![f][d] = "complete"] ELSE event
    /\ squeue' = [squeue EXCEPT ![f][d] = Tail(@)]
    /\ UNCHANGED <<env, y, stacks, cache, filters, dbuf, queue, pc, cur, ret, ub, limits>>

\* y(d) after a kernel that wrote outside the buffer: any of its elements may be hit
clobbered(yd, hit, junk) == [i \in 1..Len(yd) |-> IF i \in hit THEN junk ELSE yd[i]]

\* enqueueNDRangeKernel(..., g_size, cl::NullRange): the implementation picks a
\* work-group size that divides g_size and that the device allows
local_sizes(g_size, d) ==
    {l \in 1..g_size : g_size % l = 0 /\ l <= device[d].wgmax}

\* the values a partition of x holds after "x *= 3"
scaled(xd) == [i \in 1..Len(xd) |-> 3 * xd[i]]

\* faulty variant of wait_list: the kernels wait for the halo copies of their filter
wait_list_copies(c) ==
    IF c.op = "write" THEN {} ELSE {<<c.f, d>> : d \in {d \in 1..NDev : waits_on(c.f, d)}}

\* the completion handles a command of a primary queue waits on: every
\* enqueueNDRangeKernel and enqueueWriteBuffer call leaves its event list empty
wait_list(c) == {}

\* primary queue of device d
queue_exec(d) ==
    /\ d \in 1..NDev
    /\ queue[d] # <<>>
    /\ \A e \in wait_list(Head(queue[d])) : event[e[1]][e[2]] = "complete"
    /\ LET c == Head(queue[d])
           sd == filters[c.f].s
       IN  CASE c.op = "conv_local" ->
                  /\ \E junk \in JunkVals :
                        y' = [y EXCEPT ![d] = conv_local_kernel(c.n, c.lhalo, c.rhalo, x[d],
                                   sd, @, c.alpha, c.beta, c.wgs, c.g_size, junk)]
                  /\ UNCHANGED <<dbuf, ub>>
            [] c.op = "conv_local_big" ->
                  /\ y' = [y EXCEPT ![d] = conv_local_big_kernel(c.n, c.lhalo, c.rhalo, x[d],
                                   sd, @, c.alpha, c.beta, c.g_size)]
                  /\ UNCHANGED <<dbuf, ub>>
            [] c.op = "write" ->
                  /\ dbuf' = [dbuf EXCEPT ![c.f][d] = Splice(@, c.doff, c.len, hbuf[c.f], c.hoff)]
                  /\ UNCHANGED <<y, ub>>
            [] c.op = "conv_remote" ->
                  /\ \E pick \in [remote_racy(c.n, c.lhalo, c.rhalo) -> RaceOutcomes] :
                     \E hit \in (IF remote_oob(c.n, c.lhalo, c.rhalo)
                                 THEN SUBSET (1..c.n) ELSE {{}}) :
                     \E junk \in JunkVals :
                        y' = [y EXCEPT ![d] = clobbered(
                                 conv_remote_kernel(c.n, c.has_left, c.has_right, c.lhalo,
                                     c.rhalo, x[d], dbuf[c.f][d], sd, @, c.beta, pick),
                                 hit, junk)]
                  /\ ub' = (ub \/ remote_oob(c.n, c.lhalo, c.rhalo))
                  /\ UNCHANGED dbuf
            [] c.op = "gconv_local" ->
                  /\ \E junk \in JunkVals :
                        y' = [y EXCEPT ![d] = gconv_local_kernel(c.n, c.rows, c.cols, c.lhalo,
                                   c.rhalo, x[d], sd, @, c.alpha, c.beta,
                                   build_log[c.kernel.program].source.func, c.wgs, c.g_size,
                                   junk)]
                  /\ UNCHANGED <<dbuf, ub>>
            [] c.op = "gconv_remote" ->
                  /\ \E pick \in [remote_racy(c.n, c.lhalo, c.rhalo) -> RaceOutcomes] :
                     \E hit \in (IF gremote_oob(c.n, c.lhalo, c.rhalo, c.wgs)
                                 THEN SUBSET (1..c.n) ELSE {{}}) :
                     \E lsz \in local_sizes(c.g_size, d) :
                     \E junk \in JunkVals :
                        y' = [y EXCEPT ![d] = clobbered(
                                 gconv_remote_kernel(c.n, c.has_left, c.has_right, c.rows,
                                     c.cols, c.lhalo, c.rhalo, x[d], dbuf[c.f][d], sd, @,
                                     c.alpha, c.beta,
                                     build_log[c.kernel.program].source.func,
                                     build_log[c.kernel.program].source.right_func,
                                     lsz, pick, junk),
                                 hit, junk)]
                  /\ ub' = (ub \/ gremote_oob(c.n, c.lhalo, c.rhalo, c.wgs))
                  /\ UNCHANGED dbuf
            [] c.op = "scale" ->
                  UNCHANGED <<y, dbuf, ub>>
    /\ x' = IF Head(queue[d]).op = "scale" THEN [x EXCEPT ![d] = scaled(@)] ELSE x
    /\ queue' = [queue EXCEPT ![d] = Tail(@)]
    /\ UNCHANGED <<device, part, ndebug, thread, stacks, cache, filters, hbuf, event, squeue,
                   pc, cur, ret, limits>>

\* the program around the filter: "x *= 3", a kernel put on the primary
\* queue of every device that overwrites the partition of x on that device
scale_x ==
    /\ pc = "idle"
    /\ limits.ops > 0
    /\ limits' = [limits EXCEPT !.ops = @ - 1]
    /\ queue' = [d \in DevIds |->
                   IF d <= NDev THEN Append(queue[d], [op |-> "scale", f |-> 0, d |-> d])
                   ELSE queue[d]]
    /\ UNCHANGED <<env, y, stacks, cache, filters, buffers, event, squeue, pc, cur, ret, ub>>

-----------------------------------------------------------------------------
(* util.hpp: the build-configuration calls of the host *)

\* the reference the stacks are compared with: a plain stack per kind and device
PureTop(st) == IF st = <<>> THEN "" ELSE st[Len(st)]
PurePop(st) == IF st = <<>> THEN st ELSE SubSeq(st, 1, Len(st) - 1)

\* push_compile_options(dev, str) / push_program_header(dev, str)
push_options(kind, dev, str) ==
    /\ pc = "idle"
    /\ limits.ops > 0
    /\ Len(pure[kind][dev]) < MaxStack
    /\ options' = push(options, kind, dev, str)
    /\ pure' = [pure EXCEPT ![kind][dev] = Append(@, str)]
    /\ ret' = [op |-> "push", kind |-> kind, devs |-> {dev}, value |-> str]
    /\ limits' = [limits EXCEPT !.ops = @ - 1]
    /\ UNCHANGED <<env, y, cache, filters, buffers, event, squeue, queue, pc, cur, ub>>

\* pop_compile_options(dev) / pop_program_header(dev)
pop_options(kind, dev) ==
    /\ pc = "idle"
    /\ limits.ops > 0
    /\ options' = pop(options, kind, dev)
    /\ pure' = [pure EXCEPT ![kind][dev] = PurePop(@)]
    /\ ret' = [op |-> "pop", kind |-> kind, devs |-> {dev}, value |-> ""]
    /\ limits' = [limits EXCEPT !.ops = @ - 1]
    /\ UNCHANGED <<env, y, cache, filters, buffers, event, squeue, queue, pc, cur, ub>>

\* get_compile_options(dev) / get_program_header(dev): returns a copy of the top
get_options(kind, dev) ==
    /\ pc = "idle"
    /\ limits.ops > 0
    /\ options' = get_effect(options, kind, dev)
    /\ ret' = [op |-> "get", kind |-> kind, devs |-> {dev},
               value |-> get_value(options, kind, dev)]
    /\ limits' = [limits EXCEPT !.ops = @ - 1]
    /\ UNCHANGED <<env, y, pure, cache, filters, buffers, event, squeue, queue, pc, cur, ub>>

\* the loops "for (auto q = queue.begin(); q != queue.end(); ++q)" over a queue list
RECURSIVE push_each(_, _, _, _)
push_each(opts, kind, qs, str) ==
    IF qs = <<>> THEN opts ELSE push_each(push(opts, kind, Head(qs), str), kind, Tail(qs), str)

RECURSIVE pop_each(_, _, _)
pop_each(opts, kind, qs) ==
    IF qs = <<>> THEN opts ELSE pop_each(pop(opts, kind, Head(qs)), kind, Tail(qs))

RECURSIVE PurePushEach(_, _, _, _)
PurePushEach(st, kind, qs, str) ==
    IF qs = <<>> THEN st
    ELSE PurePushEach([st EXCEPT ![kind][Head(qs)] = Append(@, str)], kind, Tail(qs), str)

RECURSIVE PurePopEach(_, _, _)
PurePopEach(st, kind, qs) ==
    IF qs = <<>> THEN st
    ELSE PurePopEach([st EXCEPT ![kind][Head(qs)] = PurePop(@)], kind, Tail(qs))

Range(qs) == {qs[i] : i \in 1..Len(qs)}

\* push_compile_options(queue, str) / push_program_header(queue, str)
push_options_queue(kind, qs, str) ==
    /\ pc = "idle"
    /\ limits.ops > 0
    /\ \A d \in Range(qs) : Len(PurePushEach(pure, kind, qs, str)[kind][d]) <= MaxStack
    /\ options' = push_each(options, kind, qs, str)
    /\ pure' = PurePushEach(pure, kind, qs, str)
    /\ ret' = [op |-> "push", kind |-> kind, devs |-> Range(qs), value |-> str]
    /\ limits' = [limits EXCEPT !.ops = @ - 1]
    /\ UNCHANGED <<env, y, cache, filters, buffers, event, squeue, queue, pc, cur, ub>>

\* pop_compile_options(queue) / pop_program_header(queue)
pop_options_queue(kind, qs) ==
    /\ pc = "idle"
    /\ limits.ops > 0
    /\ options' = pop_each(options, kind, qs)
    /\ pure' = PurePopEach(pure, kind, qs)
    /\ ret' = [op |-> "pop", kind |-> kind, devs |-> Range(qs), value |-> ""]
    /\ limits' = [limits EXCEPT !.ops = @ - 1]
    /\ UNCHANGED <<env, y, cache, filters, buffers, event, squeue, queue, pc, cur, ub>>

-----------------------------------------------------------------------------
(* stencil<T>::init run by several host threads on a queue list of one device. *)
(* The static cache has no lock of its own, so a constructor is a sequence of  *)
(* steps between which another thread's constructor may run: the test of the   *)
(* flag, the build, the stores into the cache, and the rest of init.           *)

\* faulty variant of sees_compiled: the flag always reads as not set
sees_compiled_never(c) == FALSE

\* line 247: "compiled[context()]" as the thread reads it
sees_compiled(c) == compiled[c]

\* callers that serialize their constructions let one constructor run at a time
may_enter(t) ==
    thread.mode = "locked" => \A u \in Threads \ {t} : thread.pc[u] \in {"start", "done"}

\* line 247: the test of the flag
t_check(t) ==
    /\ thread.pc[t] = "start"
    /\ may_enter(t)
    /\ thread' = [thread EXCEPT !.pc[t] = IF sees_compiled(device[1].ctx) THEN "plan"
                                          ELSE "build"]
    /\ UNCHANGED <<device, part, x, ndebug, y, stacks, cache, filters, buffers, event,
                   squeue, queue, pc, cur, ret, ub, limits>>

\* lines 248-350: the source text and build_sources; a failed build throws out
\* of the constructor
t_build(t, ok) ==
    /\ thread.pc[t] = "build"
    /\ LET b == build_sources(device[1].ctx, StencilSource, ok,
                              [options |-> options, build_log |-> build_log,
                               thrown |-> FALSE])
       IN  /\ options' = b.options
           /\ build_log' = b.build_log
           /\ thread' = [thread EXCEPT
                            !.pc[t] = IF b.thrown THEN "done" ELSE "store",
                            !.program[t] = IF b.thrown THEN 0 ELSE Len(b.build_log)]
    /\ UNCHANGED <<device, part, x, ndebug, y, pure, compiled, conv_local, conv_local_big,
                   conv_remote, wgsize, exdata, filters, buffers, event, squeue, queue,
                   pc, cur, ret, ub, limits>>

\* lines 352-364: the kernels of the thread's program, the work-group size and
\* the flag go into the cache, whatever it holds; without a lock the stores
\* race with the other threads' accesses to the same maps
t_store(t) ==
    /\ thread.pc[t] = "store"
    /\ LET c == device[1].ctx
           p == thread.program[t]
       IN  /\ conv_local' = [conv_local EXCEPT ![c] = [program |-> p, name |-> "conv_local"]]
           /\ conv_local_big' = [conv_local_big EXCEPT
                                    ![c] = [program |-> p, name |-> "conv_local_big"]]
           /\ conv_remote' = [conv_remote EXCEPT
                                 ![c] = [program |-> p, name |-> "conv_remote"]]
           /\ wgsize' = [wgsize EXCEPT ![c] = kernel_workgroup_size(device[1].wgmax)]
           /\ compiled' = [compiled EXCEPT ![c] = TRUE]
    /\ ub' = (ub \/ (thread.mode = "free" /\ \E u \in Threads \ {t} : thread.pc[u] # "start"))
    /\ thread' = [thread EXCEPT !.pc[t] = "plan"]
    /\ UNCHANGED <<device, part, x, ndebug, y, stacks, exdata, build_log, filters, buffers,
                   event, squeue, queue, pc, cur, ret, limits>>

\* lines 367-403: the plan for the device, the buffers and the filter itself
t_plan(t, data, center, junk) ==
    /\ thread.pc[t] = "plan"
    /\ stencil_args_ok(data, center)
    /\ LET lhalo == left_halo(Len(data), center)
           rhalo == right_halo(Len(data), center)
           pl == plan(wgsize[device[1].ctx], Len(data),
                      (device[1].lmem - device[1].klmem) \div SizeofT)
       IN  /\ filters' = Append(filters,
                  [kind |-> "stencil", lhalo |-> lhalo, rhalo |-> rhalo, s |-> data,
                   fast_kernel |-> <<pl.fast_kernel>>, wgs |-> <<pl.wgs>>,
                   has_squeue |-> lhalo + rhalo > 0])
           /\ hbuf' = Append(hbuf, [i \in 1..(Len(part) * (lhalo + rhalo)) |-> 0])
           /\ dbuf' = Append(dbuf,
                  [d \in 1..Len(part) |-> [i \in 1..(lhalo + rhalo) |-> junk]])
           /\ event' = Append(event, [d \in 1..Len(part) |-> "null"])
           /\ squeue' = Append(squeue, [d \in 1..Len(part) |-> <<>>])
    /\ thread' = [thread EXCEPT !.pc[t] = "done"]
    /\ UNCHANGED <<device, part, x, ndebug, y, stacks, cache, queue, pc, cur, ret, ub,
                   limits>>

-----------------------------------------------------------------------------
(* Initial states *)

NoExdata == [compiled |-> [c \in Contexts |-> FALSE],
             conv_local |-> [c \in Contexts |-> NullKernel],
             conv_remote |-> [c \in Contexts |-> NullKernel],
             wgsize |-> [c \in Contexts |-> 0]]

\* one host thread only: no constructor is running on another thread
NoThreads == [mode |-> "locked", pc |-> [t \in Threads |-> "done"],
              program |-> [t \in Threads |-> 0]]

\* nothing built, nothing constructed, all stacks and queues empty
InitHost ==
    /\ options = [k \in Kinds |-> [d \in DevIds |-> <<>>]]
    /\ pure = [k \in Kinds |-> [d \in DevIds |-> <<>>]]
    /\ compiled = [c \in Contexts |-> FALSE]
    /\ conv_local = [c \in Contexts |-> NullKernel]
    /\ conv_local_big = [c \in Contexts |-> NullKernel]
    /\ conv_remote = [c \in Contexts |-> NullKernel]
    /\ wgsize = [c \in Contexts |-> 0]
    /\ exdata = [fn \in Funcs |-> NoExdata]
    /\ build_log = <<>>
    /\ filters = <<>>
    /\ hbuf = <<>>
    /\ dbuf = <<>>
    /\ event = <<>>
    /\ squeue = <<>>
    /\ queue = [d \in DevIds |-> <<>>]
    /\ pc = "idle"
    /\ cur = [f |-> 0, func |-> "", alpha |-> 0, beta |-> 0, y0 |-> y, status |-> "none"]
    /\ ret = [op |-> "none"]
    /\ ub = FALSE

\* global index (0-based) of the first element of partition d
RECURSIVE Offset(_, _)
Offset(p, d) == IF d <= 1 THEN 0 ELSE p[d - 1] + Offset(p, d - 1)

\* the vectors: x is the ramp 1, 2, 4, 8, ... split as p says; y holds
\* distinct values seed + 1, seed + 2, ...
VectorX(p) == [d \in 1..Len(p) |-> [i \in 1..p[d] |-> Pow2(Offset(p, d) + i - 1)]]
VectorY(p, seed) == [d \in 1..Len(p) |-> [i \in 1..p[d] |-> seed + Offset(p, d) + i]]

Shapes == UNION {[1..n -> 1..MaxPart] : n \in 1..MaxDev}

InitConv ==
    /\ part \in Shapes
    /\ \E k \in DeviceKinds :
          device = [d \in AllDevs |-> [ctx |-> 1, ord |-> d, wgmax |-> k.wgmax,
                                      lmem |-> k.lmem, klmem |-> k.klmem]]
    /\ x = VectorX(part)
    /\ \E seed \in YSeeds : y = VectorY(part, seed)
    /\ limits = [filters |-> 1, calls |-> 1, ops |-> 0]
    /\ ndebug = FALSE
    /\ thread = NoThreads
    /\ InitHost

Weights == UNION {[1..n -> SVals] : n \in 0..MaxLen}

NextConv ==
    \/ \E data \in Weights, center \in 0..MaxLen, ok \in [Contexts -> BOOLEAN],
          junk \in JunkVals : stencil_init(data, center, ok, junk)
    \/ \E f \in 1..MaxFilters, alpha \in Alphas, beta \in Betas :
          convolve_read_halos(f, alpha, beta)
    \/ convolve_interior
    \/ convolve_wait
    \/ convolve_boundary
    \/ \E f \in 1..MaxFilters, d \in DevIds : squeue_exec(f, d)
    \/ \E d \in DevIds : queue_exec(d)

SpecConv == InitConv /\ [][NextConv]_vars

\* the same program with its scheduling: the host thread keeps running, and
\* every device queue eventually executes the command at its head
FairConv ==
    /\ WF_vars(convolve_interior)
    /\ WF_vars(convolve_wait)
    /\ WF_vars(convolve_boundary)
    /\ \A f \in 1..MaxFilters : \A d \in AllDevs : WF_vars(squeue_exec(f, d))
    /\ \A d \in AllDevs : WF_vars(queue_exec(d))

SpecConvFair == InitConv /\ [][NextConv]_vars /\ FairConv

\* the spec's two scenarios: the input [1,2,4,8,16] on one device, and split
\* as [1,2,4] and [8,16] over two
InitScenario ==
    /\ part \in {<<5>>, <<3, 2>>}
    /\ \E k \in DeviceKinds :
          device = [d \in AllDevs |-> [ctx |-> 1, ord |-> d, wgmax |-> k.wgmax,
                                      lmem |-> k.lmem, klmem |-> k.klmem]]
    /\ x = VectorX(part)
    /\ \E seed \in YSeeds : y = VectorY(part, seed)
    /\ limits = [filters |-> 1, calls |-> 1, ops |-> 0]
    /\ ndebug = FALSE
    /\ thread = NoThreads
    /\ InitHost

SpecScenario == InitScenario /\ [][NextConv]_vars

\* the build-configuration stacks alone: every sequence of at most MaxOps calls
QueueLists == UNION {[1..n -> DevIds] : n \in 1..2}

InitOpts ==
    /\ part = [d \in AllDevs |-> 1]
    /\ \E k \in DeviceKinds :
          device = [d \in AllDevs |-> [ctx |-> 1, ord |-> d, wgmax |-> k.wgmax,
                                      lmem |-> k.lmem, klmem |-> k.klmem]]
    /\ x = VectorX(part)
    /\ y = VectorY(part, 0)
    /\ limits = [filters |-> 0, calls |-> 0, ops |-> MaxOps]
    /\ ndebug = FALSE
    /\ thread = NoThreads
    /\ InitHost

NextOpts ==
    \/ \E kind \in Kinds, dev \in DevIds, str \in Strings : push_options(kind, dev, str)
    \/ \E kind \in Kinds, dev \in DevIds : pop_options(kind, dev)
    \/ \E kind \in Kinds, dev \in DevIds : get_options(kind, dev)
    \/ \E kind \in Kinds, qs \in QueueLists, str \in Strings :
          push_options_queue(kind, qs, str)
    \/ \E kind \in Kinds, qs \in QueueLists : pop_options_queue(kind, qs)

SpecOpts == InitOpts /\ [][NextOpts]_vars

\* constructions alone: every weight sequence and matrix shape within the bounds
InitShape ==
    /\ part \in Shapes
    /\ \E k \in DeviceKinds :
          device = [d \in AllDevs |-> [ctx |-> 1, ord |-> d, wgmax |-> k.wgmax,
                                      lmem |-> k.lmem, klmem |-> k.klmem]]
    /\ x = VectorX(part)
    /\ y = VectorY(part, 0)
    /\ limits = [filters |-> 1, calls |-> 0, ops |-> 0]
    /\ ndebug = FALSE
    /\ thread = NoThreads
    /\ InitHost

NextShape ==
    \/ \E data \in Weights, center \in 0..MaxLen, ok \in [Contexts -> BOOLEAN],
          junk \in JunkVals : stencil_init(data, center, ok, junk)
    \/ \E rows \in 0..2, cols \in 0..MaxLen, center \in 0..MaxLen, data \in Weights,
          junk \in JunkVals : gstencil_init(rows, cols, center, data, junk)

SpecShape == InitShape /\ [][NextShape]_vars

\* constructions alone, in a build with the asserts and in one without (NDEBUG)
InitAsserts ==
    /\ part \in Shapes
    /\ \E k \in DeviceKinds :
          device = [d \in AllDevs |-> [ctx |-> 1, ord |-> d, wgmax |-> k.wgmax,
                                      lmem |-> k.lmem, klmem |-> k.klmem]]
    /\ x = VectorX(part)
    /\ y = VectorY(part, 0)
    /\ limits = [filters |-> 1, calls |-> 0, ops |-> 0]
    /\ ndebug \in BOOLEAN
    /\ thread = NoThreads
    /\ InitHost

SpecAsserts == InitAsserts /\ [][NextShape]_vars

\* the whole program on small data: filters of both classes are constructed
\* and applied, on one context or two, while the build options change
BuildShapes == {<<3>>, <<2, 2>>}
BuildWeights == {<<1>>, <<1, -2>>, <<-2, 1, 1, -2>>}

Init ==
    /\ part \in BuildShapes
    /\ \E cs \in [AllDevs -> Contexts], first \in AllDevs :
          /\ cs[1] = 1
          /\ (\E d \in AllDevs : cs[d] # cs[1]) => first = 1
          /\ device = [d \in AllDevs |-> [ctx |-> cs[d],
                                         ord |-> IF d = first THEN 0 ELSE d,
                                         wgmax |-> 4, lmem |-> 96, klmem |-> 0]]
    /\ x = VectorX(part)
    /\ y = VectorY(part, 0)
    /\ limits \in {[filters |-> MaxFilters, calls |-> 1, ops |-> 1],
                  [filters |-> 1, calls |-> MaxCalls, ops |-> 1]}
    /\ ndebug = FALSE
    /\ thread = NoThreads
    /\ InitHost

Next ==
    \/ \E data \in BuildWeights, center \in 0..1, ok \in [Contexts -> BOOLEAN],
          junk \in JunkVals : stencil_init(data, center, ok, junk)
    \/ \E rows \in 1..2, cols \in 1..2, center \in 0..1, data \in BuildWeights,
          junk \in JunkVals : gstencil_init(rows, cols, center, data, junk)
    \/ \E f \in 1..MaxFilters : convolve_read_halos(f, 0, 1)
    \/ convolve_interior
    \/ convolve_wait
    \/ convolve_boundary
    \/ \E f \in 1..MaxFilters, fn \in Funcs, ok \in [Contexts -> BOOLEAN] :
          gconvolve_start(f, fn, 0, 1, ok)
    \/ gconvolve_interior
    \/ gconvolve_wait
    \/ gconvolve_boundary
    \/ \E f \in 1..MaxFilters, d \in DevIds : squeue_exec(f, d)
    \/ \E d \in DevIds : queue_exec(d)
    \/ \E dev \in DevIds : push_options("compile_options", dev, "-a")
    \/ \E dev \in DevIds : pop_options("compile_options", dev)

Spec == Init /\ [][Next]_vars

\* one call of a plain filter over ChainDev devices in a row, so that there
\* are devices with a neighbour on both sides
ChainWeights == {<<1, -2>>, <<1, -2, 1>>, <<-2, 1, 1, -2>>}

InitChain ==
    /\ part \in [1..ChainDev -> 1..MaxPart]
    /\ device = [d \in 1..ChainDev |-> [ctx |-> 1, ord |-> d, wgmax |-> 4, lmem |-> 96,
                                          klmem |-> 0]]
    /\ x = VectorX(part)
    /\ y = VectorY(part, 0)
    /\ limits = [filters |-> 1, calls |-> 1, ops |-> 0]
    /\ ndebug = FALSE
    /\ thread = NoThreads
    /\ InitHost

NextChain ==
    \/ \E data \in ChainWeights, center \in 0..1, ok \in [Contexts -> BOOLEAN],
          junk \in JunkVals : stencil_init(data, center, ok, junk)
    \/ \E f \in 1..MaxFilters : convolve_read_halos(f, 0, 1)
    \/ convolve_interior
    \/ convolve_wait
    \/ convolve_boundary
    \/ \E f \in 1..MaxFilters, d \in 1..ChainDev : squeue_exec(f, d)
    \/ \E d \in 1..ChainDev : queue_exec(d)

SpecChain == InitChain /\ [][NextChain]_vars

\* one filter on one device, for every device the planner tells apart: the
\* largest work-group size, the local memory and the part of it the kernel
\* itself takes
PlanKinds == [wgmax : {1, 2, 4, 8}, lmem : {32, 48, 64, 96, 128}, klmem : {0, 8}]
PlanWeights == {[i \in 1..n |-> IF i = 1 THEN 1 ELSE -2] : n \in 1..MaxLen}

InitPlan ==
    /\ \E n \in 1..(MaxLen + 2) : part = <<n>>
    /\ \E k \in PlanKinds :
          device = [d \in AllDevs |-> [ctx |-> 1, ord |-> d, wgmax |-> k.wgmax,
                                      lmem |-> k.lmem, klmem |-> k.klmem]]
    /\ x = VectorX(part)
    /\ y = VectorY(part, 0)
    /\ limits = [filters |-> 1, calls |-> 1, ops |-> 0]
    /\ ndebug = FALSE
    /\ thread = NoThreads
    /\ InitHost

NextPlan ==
    \/ \E data \in PlanWeights, center \in 0..(MaxLen - 1), ok \in [Contexts -> BOOLEAN],
          junk \in JunkVals : center < Len(data) /\ stencil_init(data, center, ok, junk)
    \/ \E f \in 1..MaxFilters : convolve_read_halos(f, 0, 1)
    \/ convolve_interior
    \/ convolve_wait
    \/ convolve_boundary
    \/ \E d \in DevIds : queue_exec(d)

SpecPlan == InitPlan /\ [][NextPlan]_vars

\* one generalized filter of one row and up to MaxLen columns, every center,
\* on partitions of at least left_halo + right_halo elements
EdgeShapes == {<<3>>, <<3, 3>>, <<4, 3>>}
EdgeWeights == {[i \in 1..n |-> IF i % 2 = 1 THEN 1 ELSE -2] : n \in 1..MaxLen}

InitEdges ==
    /\ part \in EdgeShapes
    /\ device = [d \in AllDevs |-> [ctx |-> 1, ord |-> d, wgmax |-> 4, lmem |-> 96,
                                    klmem |-> 0]]
    /\ x = VectorX(part)
    /\ y = VectorY(part, 0)
    /\ limits = [filters |-> 1, calls |-> 1, ops |-> 0]
    /\ ndebug = FALSE
    /\ thread = NoThreads
    /\ InitHost

NextEdges ==
    \/ \E data \in EdgeWeights, center \in 0..(MaxLen - 1), junk \in JunkVals :
          center < Len(data) /\ gstencil_init(1, Len(data), center, data, junk)
    \/ \E f \in 1..MaxFilters, fn \in Funcs, ok \in [Contexts -> BOOLEAN] :
          gconvolve_start(f, fn, 0, 1, ok)
    \/ gconvolve_interior
    \/ gconvolve_wait
    \/ gconvolve_boundary
    \/ \E f \in 1..MaxFilters, d \in DevIds : squeue_exec(f, d)
    \/ \E d \in DevIds : queue_exec(d)

SpecEdges == InitEdges /\ [][NextEdges]_vars

\* filters built and called in any order on devices whose local memory makes
\* the planner halve the work-group size for some weights and fall back for
\* others
FrameKinds == [wgmax : {8}, lmem : {64, 96}, klmem : {0, 8}]
FrameShapes == {<<MaxLen>>, <<3, 3>>}

InitFrame ==
    /\ part \in FrameShapes
    /\ \E k \in [AllDevs -> FrameKinds] :
          device = [d \in AllDevs |-> [ctx |-> 1, ord |-> d, wgmax |-> k[d].wgmax,
                                      lmem |-> k[d].lmem, klmem |-> k[d].klmem]]
    /\ x = VectorX(part)
    /\ y = VectorY(part, 0)
    /\ limits \in {[filters |-> MaxFilters, calls |-> 1, ops |-> 0],
                   [filters |-> 1, calls |-> MaxCalls, ops |-> 0]}
    /\ ndebug = FALSE
    /\ thread = NoThreads
    /\ InitHost

NextFrame ==
    \/ \E data \in BuildWeights, center \in 0..1, ok \in [Contexts -> BOOLEAN],
          junk \in JunkVals : center < Len(data) /\ stencil_init(data, center, ok, junk)
    \/ \E cols \in 1..2, center \in 0..1, data \in BuildWeights, junk \in JunkVals :
          /\ cols = Len(data) /\ center < cols
          /\ gstencil_init(1, cols, center, data, junk)
    \/ \E f \in 1..MaxFilters : convolve_read_halos(f, 0, 1)
    \/ convolve_interior
    \/ convolve_wait
    \/ convolve_boundary
    \/ \E f \in 1..MaxFilters, ok \in [Contexts -> BOOLEAN] : gconvolve_start(f, "cos", 0, 1, ok)
    \/ gconvolve_interior
    \/ gconvolve_wait
    \/ gconvolve_boundary
    \/ \E f \in 1..MaxFilters, d \in DevIds : squeue_exec(f, d)
    \/ \E d \in DevIds : queue_exec(d)

SpecFrame == InitFrame /\ [][NextFrame]_vars

\* convolve(x, y); x *= 3; convolve(x, y) on one filter with halos over two
\* devices, the host never waiting for the devices in between
StreamWeights == {<<1, -2>>, <<1, -2, 1>>}

InitStream ==
    /\ part = <<2, 2>>
    /\ device = [d \in AllDevs |-> [ctx |-> 1, ord |-> d, wgmax |-> 4, lmem |-> 96,
                                    klmem |-> 0]]
    /\ x = VectorX(part)
    /\ y = VectorY(part, 0)
    /\ limits = [filters |-> 1, calls |-> MaxCalls, ops |-> 1]
    /\ ndebug = FALSE
    /\ thread = NoThreads
    /\ InitHost

NextStream ==
    \/ \E data \in StreamWeights, center \in 0..1, ok \in [Contexts -> BOOLEAN],
          junk \in JunkVals : stencil_init(data, center, ok, junk)
    \/ \E f \in 1..MaxFilters :
          /\ limits.calls = MaxCalls \/ limits.ops = 0
          /\ convolve_read_halos(f, 0, 1)
    \/ limits.calls = MaxCalls - 1 /\ scale_x
    \/ convolve_interior
    \/ convolve_wait
    \/ convolve_boundary
    \/ \E f \in 1..MaxFilters, d \in DevIds : squeue_exec(f, d)
    \/ \E d \in DevIds : queue_exec(d)

SpecStream == InitStream /\ [][NextStream]_vars

\* MaxThreads host threads, each constructing one plain filter on the same
\* one-device queue list, with or without a lock around the constructor
InitThreads ==
    /\ \E n \in 1..MaxPart : part = <<n>>
    /\ \E k \in DeviceKinds :
          device = [d \in AllDevs |-> [ctx |-> 1, ord |-> d, wgmax |-> k.wgmax,
                                      lmem |-> k.lmem, klmem |-> k.klmem]]
    /\ x = VectorX(part)
    /\ y = VectorY(part, 0)
    /\ limits = [filters |-> 0, calls |-> 0, ops |-> 0]
    /\ ndebug = FALSE
    /\ \E m \in {"free", "locked"} :
          thread = [mode |-> m, pc |-> [t \in Threads |-> "start"],
                    program |-> [t \in Threads |-> 0]]
    /\ InitHost

NextThreads ==
    \/ \E t \in Threads : t_check(t)
    \/ \E t \in Threads, ok \in BOOLEAN : t_build(t, ok)
    \/ \E t \in Threads : t_store(t)
    \/ \E t \in Threads, data \in BuildWeights, center \in 0..1, junk \in JunkVals :
          t_plan(t, data, center, junk)

SpecThreads == InitThreads /\ [][NextThreads]_vars

-----------------------------------------------------------------------------
(* What the convolution claims are stated with *)

\* the call has returned normally and every device has executed all its commands
Quiet ==
    /\ pc = "idle"
    /\ cur.status = "ok"
    /\ \A d \in DevIds : queue[d] = <<>>
    /\ \A f \in 1..Len(filters) : \A d \in 1..NDev : squeue[f][d] = <<>>

RECURSIVE Flat(_)
Flat(v) == IF v = <<>> THEN <<>> ELSE Head(v) \o Flat(Tail(v))

Clamp(i, n) == IF i < 1 THEN 1 ELSE IF i > n THEN n ELSE i

\* the convolution of the whole input, extended past both ends by clamping,
\* at global position i (1-based)
RefConv(xg, s, lh, i) ==
    SumF([k \in -lh..(Len(s) - 1 - lh) |-> s[lh + k + 1] * xg[Clamp(i + k, Len(xg))]],
         -lh, Len(s) - 1 - lh)

\* what the same filter computes when one device holds the whole input:
\* the interior kernel the planner chose, then conv_remote without neighbours
SingleDevice(f) ==
    LET F == filters[f]
        xg == Flat(x)
        n == Len(xg)
        junk == CHOOSE j \in JunkVals : TRUE
        inner == IF F.fast_kernel[1]
                 THEN conv_local_kernel(n, F.lhalo, F.rhalo, xg, F.s, Flat(cur.y0),
                          cur.alpha, cur.beta, F.wgs[1], alignup(n, F.wgs[1]), junk)
                 ELSE conv_local_big_kernel(n, F.lhalo, F.rhalo, xg, F.s, Flat(cur.y0),
                          cur.alpha, cur.beta, alignup(n, F.wgs[1]))
    IN  IF F.lhalo + F.rhalo > 0
        THEN conv_remote_kernel(n, FALSE, FALSE, F.lhalo, F.rhalo, xg, <<>>, F.s, inner,
                 cur.beta, [i \in remote_racy(n, F.lhalo, F.rhalo) |-> "both"])
        ELSE inner

HaloFits(f) ==
    \A d \in 1..NDev : part[d] >= Max(filters[f].lhalo, filters[f].rhalo)

Wide(f) ==
    \A d \in 1..NDev : part[d] >= filters[f].lhalo + filters[f].rhalo

\* C1: with N > 1 devices and every partition holding at least
\* max(left_halo, right_halo) elements, the output of the finished call (in
\* which no work-item wrote outside its buffer) equals, element by element,
\* the output of the same call on a single device.
C1_SplitEqualsSingleDevice ==
    (Quiet /\ ~ub /\ NDev > 1 /\ HaloFits(cur.f)) => Flat(y) = SingleDevice(cur.f)

\* the same with every partition holding at least left_halo + right_halo elements
SplitEqualsSingleDevice_Wide ==
    (Quiet /\ NDev > 1 /\ Wide(cur.f)) => Flat(y) = SingleDevice(cur.f)

\* C2: the complete output of a finished call in which no work-item wrote
\* outside its buffer equals the reference convolution over the input extended
\* by clamping (blended with the prior output), for one device and for several.
C2_EdgeReplication ==
    (Quiet /\ ~ub) => \A i \in 1..Len(Flat(y)) :
        Flat(y)[i] = Blend(cur.alpha, cur.beta, Flat(cur.y0)[i],
                           RefConv(Flat(x), filters[cur.f].s, filters[cur.f].lhalo, i))

EdgeReplication_Wide ==
    (Quiet /\ Wide(cur.f)) => \A i \in 1..Len(Flat(y)) :
        Flat(y)[i] = Blend(cur.alpha, cur.beta, Flat(cur.y0)[i],
                           RefConv(Flat(x), filters[cur.f].s, filters[cur.f].lhalo, i))

\* C3: after a call with alpha # 0 (in which no work-item wrote outside its
\* buffer) every output element, boundary elements included, equals
\* alpha * y_before[i] + beta * conv(x)[i].
C3_BlendNonzeroAlpha ==
    (Quiet /\ ~ub /\ cur.alpha # 0) => \A i \in 1..Len(Flat(y)) :
        Flat(y)[i] = cur.alpha * Flat(cur.y0)[i]
                     + cur.beta * RefConv(Flat(x), filters[cur.f].s, filters[cur.f].lhalo, i)

\* C4: after a call with alpha = 0 (in which no work-item wrote outside its
\* buffer) every output element equals beta * conv(x)[i], whatever the output
\* vector held before.
C4_PureOverwrite ==
    (Quiet /\ ~ub /\ cur.alpha = 0) => \A i \in 1..Len(Flat(y)) :
        Flat(y)[i] = cur.beta * RefConv(Flat(x), filters[cur.f].s, filters[cur.f].lhalo, i)

\* C3 and C4 with every partition holding at least left_halo + right_halo elements
BlendNonzeroAlpha_Wide ==
    (Quiet /\ cur.alpha # 0 /\ Wide(cur.f)) => \A i \in 1..Len(Flat(y)) :
        Flat(y)[i] = cur.alpha * Flat(cur.y0)[i]
                     + cur.beta * RefConv(Flat(x), filters[cur.f].s, filters[cur.f].lhalo, i)

PureOverwrite_Wide ==
    (Quiet /\ cur.alpha = 0 /\ Wide(cur.f)) => \A i \in 1..Len(Flat(y)) :
        Flat(y)[i] = cur.beta * RefConv(Flat(x), filters[cur.f].s, filters[cur.f].lhalo, i)

\* C6: weights [1,-2,1], center 1, one device, input [1,2,4,8,16], alpha = 0
\* and beta = 1: the outputs at indices 1, 2 and 3 are -1, 2 and 4.
Laplacian ==
    /\ Quiet
    /\ part = <<5>>
    /\ x = << <<1, 2, 4, 8, 16>> >>
    /\ filters[cur.f].s = <<1, -2, 1>>
    /\ filters[cur.f].lhalo = 1
    /\ cur.alpha = 0
    /\ cur.beta = 1

C6_LaplacianAsStated ==
    Laplacian => (y[1][2] = -1 /\ y[1][3] = 2 /\ y[1][4] = 4)

\* C6 (amended): in the same scenario the outputs at indices 1, 2 and 3 are
\* 1, 2 and 4 (1*1 - 2*2 + 1*4 = 1), and the clamped outputs at indices 0
\* and 4 are 1 and -8.
C6_LaplacianInterior ==
    Laplacian => y[1] = <<1, 1, 2, 4, -8>>

C6_Witness == Laplacian /\ y[1] = <<1, 1, 2, 4, -8>> /\ cur.y0[1] # y[1]

\* C7: a filter with one weight and center 0 never issues a halo copy, never
\* waits and never enqueues a halo-buffer write or a boundary kernel, and the
\* output of the finished call equals the single-device output for any split.
ZeroHalo(f) == filters[f].lhalo = 0 /\ filters[f].rhalo = 0

C7_ZeroHalo ==
    \A f \in 1..Len(filters) : ZeroHalo(f) =>
        /\ \A d \in 1..NDev : squeue[f][d] = <<>> /\ event[f][d] = "null"
        /\ \A d \in 1..NDev : \A i \in 1..Len(queue[d]) :
              queue[d][i].f = f => queue[d][i].op \in {"conv_local", "conv_local_big"}
        /\ cur.f = f => pc \notin {"wait", "boundary"}
        /\ (Quiet /\ cur.f = f) => Flat(y) = SingleDevice(f)

C7_Witness ==
    /\ Quiet /\ NDev > 1 /\ ZeroHalo(cur.f)
    /\ Flat(y) = SingleDevice(cur.f)
    /\ Flat(y) # Flat(cur.y0)


\* C9: on every (kind, device) stack, after any sequence of push, pop and get,
\* get returns what a pure stack returns (the latest entry pushed and not yet
\* popped, or the empty string), the value a get call returned is that top,
\* and a pop on an empty pure stack or a get leaves every later observation as
\* the pure stack has it.
Observes(opts, st) ==
    \A k \in Kinds : \A d \in DevIds :
        /\ get_value(opts, k, d) = PureTop(st[k][d])
        /\ get_value(pop(opts, k, d), k, d) = PureTop(PurePop(st[k][d]))
        /\ get_value(pop(get_effect(opts, k, d), k, d), k, d) = PureTop(PurePop(st[k][d]))

C9_StackIsLifo ==
    /\ Observes(options, pure)
    /\ ret.op = "get" => \A d \in ret.devs : ret.value = PureTop(pure[ret.kind][d])

C9_Witness ==
    /\ ret.op = "get"
    /\ \E d \in ret.devs :
          /\ pure[ret.kind][d] = <<>>
          /\ options[ret.kind][d] # <<>>
    /\ \E k \in Kinds : \E d \in DevIds : Len(pure[k][d]) = 2 /\ pure[k][d][1] # pure[k][d][2]

OkBuilds(kernels, fn, c) ==
    {i \in 1..Len(build_log) :
        /\ build_log[i].ok
        /\ build_log[i].ctx = c
        /\ build_log[i].source.kernels = kernels
        /\ build_log[i].source.func = fn}

C5_CompileOnce ==
    /\ \A c \in Contexts :
          /\ Cardinality(OkBuilds("stencil", "", c)) <= 1
          /\ compiled[c] <=> OkBuilds("stencil", "", c) # {}
          /\ compiled[c] =>
                /\ conv_local[c] = [program |-> CHOOSE i \in OkBuilds("stencil", "", c) : TRUE,
                                    name |-> "conv_local"]
                /\ conv_local_big[c].program = conv_local[c].program
                /\ conv_remote[c].program = conv_local[c].program
    /\ \A fn \in Funcs : \A c \in Contexts :
          /\ Cardinality(OkBuilds("gstencil", fn, c)) <= 1
          /\ exdata[fn].compiled[c] <=> OkBuilds("gstencil", fn, c) # {}
          /\ exdata[fn].compiled[c] =>
                /\ exdata[fn].conv_local[c] =
                      [program |-> CHOOSE i \in OkBuilds("gstencil", fn, c) : TRUE,
                       name |-> "conv_local"]
                /\ exdata[fn].conv_remote[c].program = exdata[fn].conv_local[c].program
    /\ \A d \in DevIds : \A i \in 1..Len(queue[d]) :
          LET q == queue[d][i]
          IN  /\ q.op \in {"conv_local", "conv_local_big", "conv_remote"} =>
                    q.kernel.program \in OkBuilds("stencil", "", device[d].ctx)
              /\ q.op \in {"gconv_local", "gconv_remote"} =>
                    \E fn \in Funcs : q.kernel.program \in OkBuilds("gstencil", fn, device[d].ctx)

C5_Witness ==
    /\ limits.calls = 0
    /\ limits.filters = 0
    /\ Len(filters) = 1
    /\ filters[1].kind = "gstencil"
    /\ Len(build_log) = 1
    /\ build_log[1].ok
    /\ Quiet

\* C8: every constructed plain filter has left_halo = center and
\* right_halo = L - 1 - center for its L weights, the generalized filter the
\* same with its cols in place of L; both are non-negative and sum to L - 1
\* (cols - 1).
Width(f) == IF filters[f].kind = "stencil" THEN Len(filters[f].s) ELSE filters[f].cols

C8_HaloWidths ==
    /\ \A f \in 1..Len(filters) :
          /\ filters[f].lhalo >= 0
          /\ filters[f].rhalo >= 0
          /\ filters[f].lhalo + filters[f].rhalo = Width(f) - 1
    /\ (ret.op \in {"stencil", "gstencil"} /\ ret.made) =>
          /\ filters[Len(filters)].lhalo = ret.center
          /\ filters[Len(filters)].rhalo = ret.size - 1 - ret.center
          /\ Width(Len(filters)) = ret.size

C8_Witness ==
    /\ ret.op = "gstencil" /\ ret.made
    /\ filters[1].lhalo = 1 /\ filters[1].rhalo = 0 /\ filters[1].rows = 2

-----------------------------------------------------------------------------
(* The build cache and the build-configuration stacks *)

\* the builds a step adds to the log
NewBuilds == (Len(build_log) + 1)..Len(build_log')

\* the commands a step appends to the primary queue of device d
NewCmds(d) ==
    IF Len(queue'[d]) > Len(queue[d])
    THEN {queue'[d][i] : i \in (Len(queue[d]) + 1)..Len(queue'[d])}
    ELSE {}

FirstOkBuild(kernels, fn, c) ==
    CHOOSE i \in OkBuilds(kernels, fn, c) : \A j \in OkBuilds(kernels, fn, c) : i <= j

\* C11: once a key is compiled, no step changes its cache entry or builds for
\* it again, a push or pop on a build-configuration stack changes nothing of
\* the cache, and every kernel launched afterwards belongs to the first
\* successful build of its key, whatever the stacks hold by then.
C11_NoRetroactiveEffect ==
    [][ /\ limits'.ops # limits.ops => UNCHANGED cache
        /\ \A c \in Contexts : compiled[c] =>
              /\ compiled'[c]
              /\ conv_local'[c] = conv_local[c]
              /\ conv_local_big'[c] = conv_local_big[c]
              /\ conv_remote'[c] = conv_remote[c]
              /\ wgsize'[c] = wgsize[c]
              /\ \A i \in NewBuilds :
                    ~(build_log'[i].ctx = c /\ build_log'[i].source.kernels = "stencil")
        /\ \A fn \in Funcs : \A c \in Contexts : exdata[fn].compiled[c] =>
              /\ exdata'[fn].compiled[c]
              /\ exdata'[fn].conv_local[c] = exdata[fn].conv_local[c]
              /\ exdata'[fn].conv_remote[c] = exdata[fn].conv_remote[c]
              /\ exdata'[fn].wgsize[c] = exdata[fn].wgsize[c]
              /\ \A i \in NewBuilds :
                    ~(build_log'[i].ctx = c /\ build_log'[i].source.kernels = "gstencil"
                      /\ build_log'[i].source.func = fn)
        /\ \A d \in DevIds : \A q \in NewCmds(d) :
              /\ q.op \in {"conv_local", "conv_local_big", "conv_remote"} =>
                    q.kernel.program = FirstOkBuild("stencil", "", device[d].ctx)
              /\ q.op \in {"gconv_local", "gconv_remote"} =>
                    q.kernel.program = FirstOkBuild("gstencil", cur'.func, device[d].ctx)
      ]_vars

\* a second plain filter was constructed and applied after "-a" was pushed:
\* the one program in the log was built with the options of the first construction
C11_Witness ==
    /\ ret.op = "stencil" /\ ret.made
    /\ Len(filters) = 2
    /\ Len(build_log) = 1
    /\ build_log[1].options = ""
    /\ get_value(options, "compile_options", FirstDevice(1)) = "-a"
    /\ cur.f = 2
    /\ Quiet

\* the device of the queue list a build for context c is made for: the first
\* queue whose context is c (the loops of init and convolve<func> compile there)
compiled_for(c) ==
    CHOOSE d \in 1..NDev : device[d].ctx = c /\ \A e \in 1..NDev : device[e].ctx = c => d <= e

\* the flags of every build are the top of the compile-options stack of the
\* device being compiled for
BuildUsesDeviceFlags ==
    [][\A i \in NewBuilds :
          build_log'[i].options =
              get_value(options, "compile_options", compiled_for(build_log'[i].ctx))]_vars

\* what the code does: the flags are those of the first device of the context
BuildUsesFirstDeviceFlags ==
    [][\A i \in NewBuilds :
          build_log'[i].options =
              get_value(options, "compile_options", FirstDevice(build_log'[i].ctx))]_vars

\* the program text of every build begins with the standard header of the
\* device being compiled for
BuildUsesDeviceHeader ==
    [][\A i \in NewBuilds :
          build_log'[i].source.header =
              standard_kernel_header(options, compiled_for(build_log'[i].ctx))]_vars

\* C12: every compilation uses, as extra compiler flags and as header text
\* prepended to the program, the tops of the compile-options stack and of the
\* program-header stack of the device being compiled for, as they are at the
\* moment of the compile call.
C12_BuildUsesTopOfStacks ==
    [][\A i \in NewBuilds :
          LET d == compiled_for(build_log'[i].ctx)
          IN  /\ build_log'[i].options = get_value(options, "compile_options", d)
              /\ build_log'[i].source.header = standard_kernel_header(options, d)]_vars

-----------------------------------------------------------------------------
(* Errors *)

\* the step is a constructor call whose arguments break a documented condition
BadConstruction == limits'.filters < limits.filters /\ ~ret'.valid

\* C13: a constructor call with an empty weight sequence or a center outside
\* [0, length), or for the generalized filter rows * cols different from the
\* data length, zero rows or columns, or a center outside [0, cols), aborts
\* before any compilation, buffer allocation or queue creation, and leaves
\* the cache unchanged.
C13_ConfigurationErrorEager ==
    [][BadConstruction =>
          /\ pc' = "aborted"
          /\ UNCHANGED <<cache, filters, hbuf, dbuf, event, squeue>>]_vars

\* the same, for builds that keep the asserts
ConfigurationErrorEager_Debug ==
    [][(BadConstruction /\ ~ndebug) =>
          /\ pc' = "aborted"
          /\ UNCHANGED <<cache, filters, hbuf, dbuf, event, squeue>>]_vars

\* the builds of a step that failed
FailedBuilds == {i \in NewBuilds : ~build_log'[i].ok}

\* the builds of a step for the key of build i
SameKey(i) ==
    {j \in NewBuilds : /\ build_log'[j].ctx = build_log'[i].ctx
                       /\ build_log'[j].source.kernels = build_log'[i].source.kernels
                       /\ build_log'[j].source.func = build_log'[i].source.func}

\* C14: a failed build ends the call that made it (the construction of a
\* plain filter, the convolve of a generalized one) with the error: it is
\* the call's last build and the only one for its key, the call enqueues
\* nothing on any queue and returns no filter or result, and the key is left
\* not compiled, with no kernel handle and no work-group size.
C14_CompileErrorPropagates ==
    [][\A i \in FailedBuilds :
          LET b == build_log'[i]
              c == b.ctx
          IN  /\ i = Len(build_log')
              /\ SameKey(i) = {i}
              /\ pc' = "idle"
              /\ queue' = queue /\ squeue' = squeue
              /\ IF b.source.kernels = "stencil"
                 THEN /\ ret'.op = "stencil" /\ ~ret'.made /\ filters' = filters
                      /\ ~compiled'[c]
                      /\ conv_local'[c] = NullKernel
                      /\ conv_local_big'[c] = NullKernel
                      /\ conv_remote'[c] = NullKernel
                      /\ wgsize'[c] = 0
                 ELSE /\ cur'.status = "cl_error" /\ cur'.func = b.source.func
                      /\ ~exdata'[b.source.func].compiled[c]
                      /\ exdata'[b.source.func].conv_local[c] = NullKernel
                      /\ exdata'[b.source.func].conv_remote[c] = NullKernel
                      /\ exdata'[b.source.func].wgsize[c] = 0]_vars

\* a convolve<func> over two contexts built for the first and failed for the second
C14_Witness ==
    /\ pc = "idle"
    /\ cur.status = "cl_error"
    /\ Len(build_log) = 2
    /\ build_log[1].ok /\ ~build_log[2].ok
    /\ build_log[1].source.func = cur.func /\ build_log[2].source.func = cur.func
    /\ exdata[cur.func].compiled[build_log[1].ctx]
    /\ ~exdata[cur.func].compiled[build_log[2].ctx]
    /\ \A d \in DevIds : queue[d] = <<>>

-----------------------------------------------------------------------------
(* Termination *)

InCall == pc \in {"interior", "wait", "boundary"}

\* the devices that issued a halo copy in the call in progress
CopiedInCall(d) == OnDevice(issued(halo_reads(cur.f, 1)), d) # <<>>

\* C15: every convolve call returns to idle, given that the host runs and
\* every device queue eventually executes its commands; the host can always
\* take its next step except at the wait, and there it waits only on handles
\* of devices that issued a copy in this call.
C15_ConvolveTerminates ==
    /\ [](pc = "interior" => ENABLED convolve_interior)
    /\ [](pc = "boundary" => ENABLED convolve_boundary)
    /\ [](pc = "wait" => \A d \in 1..NDev : waits_on(cur.f, d) =>
                            /\ CopiedInCall(d)
                            /\ event[cur.f][d] \in {"queued", "complete"})
    /\ (InCall ~> pc = "idle")

\* a call over two devices with both halos has waited on both handles and returned
C15_Witness ==
    /\ pc = "idle"
    /\ cur.status = "ok"
    /\ NDev = 2
    /\ filters[cur.f].lhalo > 0 /\ filters[cur.f].rhalo > 0
    /\ event[cur.f][1] = "complete" /\ event[cur.f][2] = "complete"

-----------------------------------------------------------------------------
(* Concurrent first use *)

\* two threads both found the key not compiled, both built, and the second
\* store replaced the kernels of the first
BothCompiled ==
    /\ Cardinality(OkBuilds("stencil", "", device[1].ctx)) >= 2
    /\ \E t, u \in Threads :
          /\ t # u
          /\ thread.pc[t] \in {"plan", "done"} /\ thread.program[t] # 0
          /\ thread.pc[u] \in {"plan", "done"} /\ thread.program[u] # 0
          /\ conv_local[device[1].ctx].program = thread.program[u]
          /\ thread.program[t] < thread.program[u]

\* C16: when the constructions are serialized, no state is reached in which
\* two threads both compiled the same key; without a lock such a state is
\* reachable (C16_Witness).
C16_SerializedCompilesOnce ==
    thread.mode = "locked" =>
        /\ ~BothCompiled
        /\ Cardinality(OkBuilds("stencil", "", device[1].ctx)) <= 1
        /\ ~ub

C16_Witness == thread.mode = "free" /\ BothCompiled

\* the serialized run the statement is about: both threads have constructed
\* their filter, one of them compiled
C16_SerializedWitness ==
    /\ thread.mode = "locked"
    /\ \A t \in Threads : thread.pc[t] = "done"
    /\ Len(filters) = MaxThreads
    /\ Cardinality(OkBuilds("stencil", "", device[1].ctx)) = 1

-----------------------------------------------------------------------------
(* The halo exchange *)

\* the step issues the halo copies of a call and the call goes on
StartsCall == pc = "idle" /\ pc' \in {"interior", "g_interior"}

\* <<offset, length>> in x(d) of the copies the step puts on d's secondary queue
Copied(d) ==
    LET f == cur'.f
    IN  {<<squeue'[f][d][i].off, squeue'[f][d][i].len>> :
            i \in (Len(squeue[f][d]) + 1)..Len(squeue'[f][d])}

Trailing(d, w) == <<part[d] - w, w>>
Leading(d, w) == <<0, w>>

\* C17 as the specification words it: the device with a right neighbour
\* copies its trailing right_halo elements, the device with a left neighbour
\* its leading left_halo elements.
C17_FragmentsAsStated ==
    [][StartsCall =>
          \A d \in 1..NDev :
             LET lh == filters[cur'.f].lhalo
                 rh == filters[cur'.f].rhalo
             IN  Copied(d) =
                    (IF d < NDev /\ rh > 0 THEN {Trailing(d, rh)} ELSE {}) \cup
                    (IF d > 1 /\ lh > 0 THEN {Leading(d, lh)} ELSE {})]_vars

\* C17: in the copy step each device with a right neighbour copies its
\* trailing left_halo elements (the left halo of that neighbour), each device
\* with a left neighbour copies its leading right_halo elements (the right
\* halo of that neighbour), and nothing else is copied.
C17_HaloFragments ==
    [][StartsCall =>
          \A d \in 1..NDev :
             LET lh == filters[cur'.f].lhalo
                 rh == filters[cur'.f].rhalo
             IN  Copied(d) =
                    (IF d < NDev /\ lh > 0 THEN {Trailing(d, lh)} ELSE {}) \cup
                    (IF d > 1 /\ rh > 0 THEN {Leading(d, rh)} ELSE {})]_vars

\* the copies of a call with left_halo = 1 and right_halo = 2 have been issued
C17_Witness ==
    /\ pc \in {"interior", "g_interior"}
    /\ NDev = 2
    /\ filters[cur.f].lhalo # filters[cur.f].rhalo
    /\ filters[cur.f].lhalo > 0 /\ filters[cur.f].rhalo > 0
    /\ Len(squeue[cur.f][1]) = 1 /\ squeue[cur.f][1][1].len = filters[cur.f].lhalo
    /\ Len(squeue[cur.f][2]) = 1 /\ squeue[cur.f][2][1].len = filters[cur.f].rhalo

\* the boundary kernel is the next command device d executes
BoundaryRuns(d) == queue[d] # <<>> /\ Head(queue[d]).op = "conv_remote"

\* the halo buffer of device d holds the tail of partition d - 1 and the head
\* of partition d + 1
Delivered(f, d) ==
    LET lh == filters[f].lhalo
        rh == filters[f].rhalo
    IN  /\ d > 1 => \A i \in 1..lh : dbuf[f][d][i] = x[d - 1][part[d - 1] - lh + i]
        /\ d < NDev => \A i \in 1..rh : dbuf[f][d][lh + i] = x[d + 1][i]

\* the elements of the staging buffer a copy fills
Region(c) == (c.hoff + 1)..(c.hoff + c.len)

\* the copies of a call fill disjoint regions inside the staging buffer
RegionsDisjoint(f) ==
    LET rs == halo_reads(f, 1)
    IN  \A i, j \in 1..Len(rs) :
           /\ Region(rs[i]) \subseteq 1..Len(hbuf[f])
           /\ i # j => Region(rs[i]) \cap Region(rs[j]) = {}

\* C18: with more than one device and every partition holding at least
\* max(left_halo, right_halo) elements, when the boundary kernel of device d
\* is about to run the first left_halo entries of d's halo buffer are the last
\* left_halo elements of partition d - 1 and the next right_halo entries are
\* the first right_halo elements of partition d + 1, and the staging regions
\* of the copies are pairwise disjoint.
C18_HaloDelivery ==
    \A f \in 1..Len(filters) :
       (filters[f].kind = "stencil" /\ NDev > 1 /\ HaloFits(f)) =>
          /\ RegionsDisjoint(f)
          /\ \A d \in 1..NDev :
                (BoundaryRuns(d) /\ Head(queue[d]).f = f) => Delivered(f, d)

\* both devices are about to run the boundary kernel of a filter with halos
\* on both sides, the halo buffers filled
C18_Witness ==
    /\ NDev = 2
    /\ Len(filters) = 1
    /\ filters[1].lhalo > 0 /\ filters[1].rhalo > 0
    /\ HaloFits(1)
    /\ BoundaryRuns(1) /\ BoundaryRuns(2)
    /\ Delivered(1, 1) /\ Delivered(1, 2)

\* the boundary kernels and the halo-buffer writes a step enqueues on device d
Remote(d) == {q \in NewCmds(d) : q.op = "conv_remote"}
Writes(d) == {q \in NewCmds(d) : q.op = "write"}

\* C19: the host launches the boundary kernel, once on every device, exactly
\* in the calls of a filter with left_halo + right_halo > 0, on one device as
\* on several; copies, waiting on a handle and halo-buffer writes happen only
\* if, besides, there is more than one device; the kernel on device d gets
\* has_left = (d is not the first) and has_right = (d is not the last).
C19_PhaseBGating ==
    [][LET f == cur'.f
           halo == filters[f].lhalo + filters[f].rhalo > 0
       IN  /\ (pc = "idle" /\ limits'.calls < limits.calls) =>
                 /\ (\E d \in 1..NDev : Len(squeue'[f][d]) > Len(squeue[f][d]))
                        => (halo /\ NDev > 1)
                 /\ \A d \in 1..NDev : Remote(d) = {} /\ Writes(d) = {}
           /\ (pc = "interior" /\ pc' # pc) =>
                 /\ (pc' = "wait") <=> halo
                 /\ (pc' = "idle") <=> ~halo
                 /\ \A d \in 1..NDev : Remote(d) = {} /\ Writes(d) = {}
           /\ (pc = "wait" /\ pc' # pc) =>
                 /\ halo /\ pc' = "boundary"
                 /\ (\E d \in 1..NDev : waits_on(f, d)) => NDev > 1
                 /\ \A d \in 1..NDev : Remote(d) = {} /\ Writes(d) = {}
           /\ (pc = "boundary" /\ pc' # pc) =>
                 /\ halo
                 /\ \A d \in 1..NDev :
                       /\ Cardinality(Remote(d)) = 1
                       /\ \A q \in Remote(d) : /\ q.has_left = (d > 1)
                                                /\ q.has_right = (d < NDev)
                       /\ Writes(d) # {} => NDev > 1
      ]_vars

\* a call on a single device with halos has returned: no copy was issued, no
\* handle exists, and the boundary kernel is queued with both flags false
C19_Witness ==
    /\ pc = "idle" /\ cur.status = "ok"
    /\ NDev = 1
    /\ has_halo(cur.f)
    /\ event[cur.f][1] = "null"
    /\ Len(queue[1]) = 2
    /\ queue[1][2].op = "conv_remote"
    /\ ~queue[1][2].has_left /\ ~queue[1][2].has_right

-----------------------------------------------------------------------------
(* Order of the host's steps within a call *)

\* the step puts a halo copy on some secondary queue
IssuesCopy ==
    \E f \in 1..Len(filters) : \E d \in 1..NDev : Len(squeue'[f][d]) > Len(squeue[f][d])

\* the interior kernels a step enqueues on device d
Interior(d) == {q \in NewCmds(d) : q.op \in {"conv_local", "conv_local_big", "gconv_local"}}

\* the host has launched the interior kernels of the call in progress
PastInterior == pc \in {"wait", "boundary", "g_wait", "g_boundary"}

\* C20 as the specification words it: when the halo exchange issues a copy,
\* the interior kernel of the call has been launched on all devices.
C20_InteriorBeforeCopies ==
    [][IssuesCopy => PastInterior]_vars

\* C20: in every call the host first issues the halo copies, then launches
\* the interior kernel on every device, and only after that waits for the
\* copies, writes the halo buffers and launches the boundary kernels.
C20_PhaseOrder ==
    [][ /\ IssuesCopy =>
              /\ pc = "idle" /\ limits'.calls < limits.calls
              /\ \A d \in 1..NDev : NewCmds(d) = {}
        /\ (\E d \in 1..NDev : Interior(d) # {}) =>
              /\ pc \in {"interior", "g_interior"}
              /\ ~IssuesCopy
              /\ \A d \in 1..NDev : Remote(d) = {} /\ Writes(d) = {}
        /\ (PastInterior' /\ ~PastInterior) =>
              /\ pc \in {"interior", "g_interior"}
              /\ \A d \in 1..NDev : Cardinality(Interior(d)) = 1
        /\ (pc' \in {"boundary", "g_boundary"} /\ pc' # pc) => pc \in {"wait", "g_wait"}
        /\ (\E d \in 1..NDev : NewCmds(d) \ Interior(d) # {}) =>
              /\ pc \in {"boundary", "g_boundary"}
              /\ ~IssuesCopy
      ]_vars

\* the halo copies of a call are on the secondary queues and no interior
\* kernel of the call has been launched yet
C20_Witness ==
    /\ pc = "interior"
    /\ NDev = 2
    /\ squeue[cur.f][1] # <<>> /\ squeue[cur.f][2] # <<>>
    /\ \A d \in DevIds : queue[d] = <<>>
    /\ y = cur.y0

\* the interior kernel is the next command device d executes
InteriorRuns(d) ==
    queue[d] # <<>> /\ Head(queue[d]).op \in {"conv_local", "conv_local_big", "gconv_local"}

\* C21: when the host starts to wait for the halo copies it has just put the
\* interior kernel on the queue of every device, and an interior kernel at the
\* head of its queue can run whatever the state of the halo copies is.
C21_InteriorNotBlocked ==
    /\ [][(pc' \in {"wait", "g_wait"} /\ pc' # pc) =>
             \A d \in 1..NDev : Cardinality(Interior(d)) = 1]_vars
    /\ [](\A d \in 1..NDev : InteriorRuns(d) =>
             /\ wait_list(Head(queue[d])) = {}
             /\ ENABLED queue_exec(d))

\* the host is blocked at the wait with a copy still pending, and every
\* device has already run its interior kernel
C21_Witness ==
    /\ pc \in {"wait", "g_wait"}
    /\ NDev = 2
    /\ \E d \in 1..NDev : event[cur.f][d] = "queued"
    /\ \A d \in 1..NDev : queue[d] = <<>>

-----------------------------------------------------------------------------
(* Completion of the halo copies *)

\* the copies of filter f still pending on some secondary queue
PendingCopies(f) == UNION {{squeue[f][d][i] : i \in 1..Len(squeue[f][d])} : d \in 1..NDev}

\* the halo-buffer writes waiting on the primary queues
PendingWrites == UNION {{queue[d][i] : i \in {j \in 1..Len(queue[d]) : queue[d][j].op = "write"}} : d \in 1..NDev}

\* a device with a neighbour on both sides
Middle(d) == d > 1 /\ d < NDev

\* C22: when the wait of the host ends every halo copy of the call has been
\* executed, both copies of a device with two neighbours included, so no
\* halo-buffer write is queued while a copy into the staging elements it
\* takes is pending.
C22_WaitCoversAllCopies ==
    /\ [][(pc = "wait" /\ pc' = "boundary") =>
             \A d \in 1..NDev : squeue[cur.f][d] = <<>>]_vars
    /\ [](\A w \in PendingWrites : \A c \in PendingCopies(w.f) :
             Region(w) \cap Region(c) = {})

\* the wait is over for a filter with halos on both sides on three devices:
\* the middle device has made both of its copies
C22_Witness ==
    /\ pc = "boundary"
    /\ NDev = ChainDev
    /\ filters[cur.f].lhalo > 0 /\ filters[cur.f].rhalo > 0
    /\ \E d \in 1..NDev : Middle(d) /\ Len(halo_reads_of(cur.f, d)) = 2
                              /\ event[cur.f][d] = "complete"

-----------------------------------------------------------------------------
(* Order of the commands on a primary queue *)

InteriorOps == {"conv_local", "conv_local_big", "gconv_local"}
RemoteOps == {"conv_remote", "gconv_remote"}

Last(q) == q[Len(q)]

\* the place of the last command before place i of queue[d] that is not a
\* halo-buffer write, 0 if there is none
BlockHead(d, i) ==
    LET js == {j \in 1..(i - 1) : queue[d][j].op # "write"}
    IN  IF js = {} THEN 0 ELSE CHOOSE j \in js : \A k \in js : k <= j

\* the number of halo-buffer writes a call of filter f makes for device d
WritesFor(f, d) ==
    IF NDev > 1
    THEN (IF d > 1 /\ filters[f].lhalo > 0 THEN 1 ELSE 0)
         + (IF d < NDev /\ filters[f].rhalo > 0 THEN 1 ELSE 0)
    ELSE 0

\* the boundary kernel at place i of queue[d] stands behind the halo-buffer
\* writes of its filter for d, and those behind an interior kernel of its
\* filter unless that kernel has already been executed
BehindItsCall(d, i) ==
    LET r == queue[d][i]
        j == BlockHead(d, i)
    IN  /\ \A k \in (j + 1)..(i - 1) : queue[d][k].f = r.f
        /\ j > 0 => /\ queue[d][j].op \in InteriorOps
                    /\ queue[d][j].f = r.f
                    /\ i - j - 1 = WritesFor(r.f, d)
        /\ i - j - 1 <= WritesFor(r.f, d)

\* C23: a primary queue executes in order, from its head; between the launch
\* of the interior kernels and the boundary phase of a call the interior
\* kernel of the call is the last command of each queue unless it has been
\* executed; the boundary phase appends, for every device, its halo-buffer
\* writes and then the boundary kernel.  So a boundary kernel is executed
\* only after the interior kernel of its call and the writes for its device.
C23_BoundaryAfterInteriorAndWrites ==
    /\ [](\A d \in 1..NDev : \A i \in 1..Len(queue[d]) :
             queue[d][i].op \in RemoteOps => BehindItsCall(d, i))
    /\ [](PastInterior => \A d \in 1..NDev :
             \/ queue[d] = <<>>
             \/ Last(queue[d]).op \in InteriorOps /\ Last(queue[d]).f = cur.f)
    /\ [][\A d \in 1..NDev :
             /\ queue'[d] # queue[d] =>
                   \/ queue[d] # <<>> /\ queue'[d] = Tail(queue[d])
                   \/ /\ Len(queue'[d]) > Len(queue[d])
                      /\ SubSeq(queue'[d], 1, Len(queue[d])) = queue[d]
             /\ Remote(d) \cup {q \in NewCmds(d) : q.op = "gconv_remote"} # {} =>
                   /\ pc \in {"boundary", "g_boundary"}
                   /\ Last(queue'[d]).op \in RemoteOps
                   /\ Len(queue'[d]) = Len(queue[d]) + WritesFor(cur.f, d) + 1]_vars

\* a device is about to run the boundary kernel of a call that wrote both
\* parts of its halo buffer: nothing of the call is left behind it
C23_Witness ==
    /\ pc = "idle" /\ cur.status = "ok" /\ NDev = 2
    /\ filters[cur.f].lhalo > 0 /\ filters[cur.f].rhalo > 0
    /\ \E d \in 1..NDev : queue[d] # <<>> /\ Head(queue[d]).op \in RemoteOps
                              /\ Len(queue[d]) = 1

-----------------------------------------------------------------------------
(* The staging buffer between calls *)

\* the input of the first call of the three-statement program
FirstInput == VectorX(part)

\* "x *= 3" has not been executed on device d, nor is anything behind it
ScalePending(d) == limits.ops > 0 \/ \E i \in 1..Len(queue[d]) : queue[d][i].op = "scale"

\* the halo buffer of device d holds the halo of the first input
DeliveredFirst(f, d) ==
    LET lh == filters[f].lhalo
        rh == filters[f].rhalo
    IN  /\ d > 1 => \A i \in 1..lh : dbuf[f][d][i] = FirstInput[d - 1][part[d - 1] - lh + i]
        /\ d < NDev => \A i \in 1..rh : dbuf[f][d][lh + i] = FirstInput[d + 1][i]

\* C24: in convolve(x, y); x *= 3; convolve(x, y) without host synchronisation
\* the boundary kernel of the first call finds in its halo buffer the halo of
\* the first input.
C24_HaloFreshness ==
    \A d \in 1..NDev :
       (BoundaryRuns(d) /\ ScalePending(d)) => DeliveredFirst(Head(queue[d]).f, d)

\* the copies of a single call do reach the boundary kernel of that call
HaloFreshness_OneCall ==
    \A d \in 1..NDev :
       (BoundaryRuns(d) /\ ScalePending(d) /\ limits.calls > 0) =>
          DeliveredFirst(Head(queue[d]).f, d)

\* C25: a halo copy of x(d) is executed only when no kernel that writes x(d)
\* and was put on the primary queue of d before the copy was issued is
\* still waiting there.
C25_CopyAfterQueuedWrite ==
    [][\A f \in 1..Len(filters) : \A d \in 1..NDev :
          (squeue[f][d] # <<>> /\ squeue'[f][d] = Tail(squeue[f][d])) =>
             ~\E i \in 1..Len(queue[d]) : queue[d][i].op = "scale"]_vars

-----------------------------------------------------------------------------
(* The planner *)

\* w0, w0/2, w0/4, ...
Halving(w0) == {w0 \div Pow2(k) : k \in 0..11}

\* the sizes of the sequence that hold the weights and fit the local memory
Fitting(w0, L, M) == {w \in Halving(w0) : w >= L /\ w + 2 * L <= M}

Largest(S) == CHOOSE w \in S : \A v \in S : v <= w

\* the local memory left to the kernel on device d, in elements
Capacity(d) == (device[d].lmem - device[d].klmem) \div SizeofT

-----------------------------------------------------------------------------
(* Local memory of the fast interior kernel *)

\* the fast interior kernels on the primary queues
FastLaunches == UNION {{queue[d][i] : i \in {j \in 1..Len(queue[d]) : queue[d][j].op = "conv_local"}} : d \in 1..NDev}

\* the places of loc_buf the work-items of launch c touch
LocalTouched(c) ==
    UNION {local_writes(g, c.n, c.lhalo, c.rhalo, c.wgs)
           \cup local_reads(g, c.n, c.lhalo, c.rhalo, c.wgs) : g \in 0..(c.g_size - 1)}

\* the weights the work-items of launch c stage
Staged(c) == {l \in 0..(c.wgs - 1) : l < c.lhalo + c.rhalo + 1}

\* C27: every launch of the fast interior kernel passes a local buffer of
\* work_group_size + 2 * (left_halo + right_halo) + 1 elements, which is within
\* the capacity the planner computed for the device; the work-group is at
\* least as large as the filter, so every weight is staged; and every place
\* of the local buffer a work-item writes or reads lies inside the buffer.
C27_LocalMemoryFits ==
    \A c \in FastLaunches :
       /\ c.lmem = (c.wgs + 2 * (c.lhalo + c.rhalo) + 1) * SizeofT
       /\ c.lmem <= Capacity(c.d) * SizeofT
       /\ c.wgs >= c.lhalo + c.rhalo + 1
       /\ Staged(c) = 0..(c.lhalo + c.rhalo)
       /\ LocalTouched(c) \subseteq 0..((c.lmem \div SizeofT) - 1)

\* a fast launch with halos on both sides over more than one work-group whose
\* work-items reach the last place of the local buffer
C27_Witness ==
    \E c \in FastLaunches :
       /\ c.lhalo > 0 /\ c.rhalo > 0 /\ c.g_size > c.wgs
       /\ (c.lmem \div SizeofT) - 1 \in LocalTouched(c)

-----------------------------------------------------------------------------
(* Which kernel adds which tap *)

\* device d executes the command at the head of its primary queue
Executes(d) == queue[d] # <<>> /\ queue'[d] = Tail(queue[d])

\* the input extended past both ends, at place j (0-based) of partition d
XExt(d, j) == Flat(x)[Clamp(Offset(part, d) + j + 1, Len(Flat(x)))]

\* the taps of output i that fall inside, and outside, a partition of n elements
Inside(i, n, lh, rh) == {k \in -lh..rh : i + k >= 0 /\ i + k < n}
Outside(i, n, lh, rh) == {k \in -lh..rh : i + k < 0 \/ i + k >= n}

\* the sum of weight[k] * x_ext[i + k] over the taps ks of output i of partition d
TapSum(f, d, i, ks) ==
    LET lh == filters[f].lhalo
        rh == filters[f].rhalo
    IN  SumF([k \in -lh..rh |-> IF k \in ks THEN filters[f].s[lh + k + 1] * XExt(d, i + k) ELSE 0],
             -lh, rh)

\* the interior kernel c has added to every output of partition d the taps
\* inside the partition, once each
InteriorAdds(c, d) ==
    \A i \in 0..(c.n - 1) :
       y'[d][i + 1] = Blend(c.alpha, c.beta, y[d][i + 1],
                            TapSum(c.f, d, i, Inside(i, c.n, c.lhalo, c.rhalo)))

\* the boundary kernel c has added to every output of partition d the taps
\* outside the partition, once each
BoundaryAdds(c, d) ==
    \A i \in 0..(c.n - 1) :
       y'[d][i + 1] = y[d][i + 1]
                      + c.beta * TapSum(c.f, d, i, Outside(i, c.n, c.lhalo, c.rhalo))

\* C28: with every partition holding at least max(left_halo, right_halo)
\* elements, the interior kernel adds to output i exactly the terms
\* weight[k] * x_ext[i + k] with 0 <= i + k < n and the boundary kernel exactly
\* those with i + k < 0 or i + k >= n.
C28_TapAccounting ==
    [][\A d \in 1..NDev :
          (Executes(d) /\ Head(queue[d]).op \in {"conv_local", "conv_local_big", "conv_remote"}
             /\ HaloFits(Head(queue[d]).f)) =>
             IF Head(queue[d]).op = "conv_remote"
             THEN BoundaryAdds(Head(queue[d]), d)
             ELSE InteriorAdds(Head(queue[d]), d)]_vars

\* the same for the kernels that are free of the two faults: the fallback
\* interior kernel, and the boundary kernel on partitions of at least
\* left_halo + right_halo elements
TapAccounting_Sound ==
    [][\A d \in 1..NDev :
          (Executes(d) /\ HaloFits(Head(queue[d]).f)) =>
             /\ Head(queue[d]).op = "conv_local_big" => InteriorAdds(Head(queue[d]), d)
             /\ (Head(queue[d]).op = "conv_remote" /\ Wide(Head(queue[d]).f)) =>
                   BoundaryAdds(Head(queue[d]), d)]_vars

-----------------------------------------------------------------------------
(* What the boundary kernel leaves alone *)

\* the outputs of a partition the boundary phase is to recompute
Edge(n, lh, rh) == {i \in 0..(n - 1) : i < lh \/ i >= n - rh}

\* the boundary kernel c, executed on device d, updates places of the edge
\* only and leaves the other outputs of the partition as they were
BoundaryFrame(c, d) ==
    /\ conv_remote_y_writes(c.g_size, c.n, c.lhalo, c.rhalo) \subseteq Edge(c.n, c.lhalo, c.rhalo)
    /\ \A i \in (0..(c.n - 1)) \ Edge(c.n, c.lhalo, c.rhalo) : y'[d][i + 1] = y[d][i + 1]
    /\ \A e \in 1..NDev : e # d => y'[e] = y[e]

\* C29: the boundary kernel changes only outputs with index below left_halo
\* or at least n - right_halo of its partition, and no step of convolve
\* changes the input vector or the weights.
C29_BoundaryFrame ==
    [][ /\ \A d \in 1..NDev :
              (Executes(d) /\ Head(queue[d]).op = "conv_remote") =>
                 BoundaryFrame(Head(queue[d]), d)
        /\ x' = x
        /\ \A f \in 1..Len(filters) : filters'[f].s = filters[f].s ]_vars

\* the same with every partition holding at least max(left_halo, right_halo)
\* elements
BoundaryFrame_Fits ==
    [][ /\ \A d \in 1..NDev :
              (Executes(d) /\ Head(queue[d]).op = "conv_remote"
                 /\ HaloFits(Head(queue[d]).f)) => BoundaryFrame(Head(queue[d]), d)
        /\ x' = x
        /\ \A f \in 1..Len(filters) : filters'[f].s = filters[f].s ]_vars

-----------------------------------------------------------------------------
(* The reads of the input buffer by the interior kernels *)

\* the interior kernels of the plain filter on the primary queues
PlainLaunches == UNION {{queue[d][i] : i \in {j \in 1..Len(queue[d]) : queue[d][j].op \in {"conv_local", "conv_local_big"}}} : d \in 1..NDev}

\* the places of x the work-items 0..g_size-1 of launch c read
InteriorXReads(c) ==
    UNION {IF c.op = "conv_local"
           THEN conv_local_x_reads(g, c.n, c.lhalo, c.rhalo, c.wgs)
           ELSE conv_local_big_x_reads(g, c.n, c.lhalo, c.rhalo) : g \in 0..(c.g_size - 1)}

\* C30: every work-item of the rounded-up global range of an interior kernel,
\* fast or fallback, reads the input buffer at places in [0, n) only.
C30_InteriorReadsInBounds ==
    \A c \in PlainLaunches :
       /\ c.g_size = alignup(c.n, c.wgs)
       /\ InteriorXReads(c) \subseteq 0..(c.n - 1)

\* the same for the fallback kernel alone
InteriorReadsInBounds_Fallback ==
    \A c \in PlainLaunches :
       c.op = "conv_local_big" =>
          /\ c.g_size = alignup(c.n, c.wgs)
          /\ InteriorXReads(c) \subseteq 0..(c.n - 1)

-----------------------------------------------------------------------------
(* The transform of the generalized filter *)

\* the transform named in the source text the kernel of command c was built from
Selected(c) == build_log[c.kernel.program].source.func

\* what the boundary kernel c leaves in y(d) if both of its halves apply fn
EdgesWith(c, d, fn) ==
    {clobbered(gconv_remote_kernel(c.n, c.has_left, c.has_right, c.rows, c.cols, c.lhalo,
                   c.rhalo, x[d], dbuf[c.f][d], filters[c.f].s, y[d], c.alpha, c.beta,
                   fn, fn, lsz, pick, junk), hit, junk) :
        lsz \in local_sizes(c.g_size, d),
        pick \in [remote_racy(c.n, c.lhalo, c.rhalo) -> RaceOutcomes],
        hit \in (IF gremote_oob(c.n, c.lhalo, c.rhalo, c.wgs) THEN SUBSET (1..c.n) ELSE {{}}),
        junk \in JunkVals}

\* what the interior kernel c leaves in y(d) if it applies fn
InteriorWith(c, d, fn) ==
    {gconv_local_kernel(c.n, c.rows, c.cols, c.lhalo, c.rhalo, x[d], filters[c.f].s, y[d],
         c.alpha, c.beta, fn, c.wgs, c.g_size, junk) : junk \in JunkVals}

\* C31: every output of a call of the generalized filter, from the interior
\* kernel or from either half of the boundary kernel, is the sum over the
\* rows of the selected transform of the row's partial sum.
C31_SelectedTransformEverywhere ==
    [][\A d \in 1..NDev :
          /\ (Executes(d) /\ Head(queue[d]).op = "gconv_local") =>
                y'[d] \in InteriorWith(Head(queue[d]), d, Selected(Head(queue[d])))
          /\ (Executes(d) /\ Head(queue[d]).op = "gconv_remote") =>
                y'[d] \in EdgesWith(Head(queue[d]), d, Selected(Head(queue[d])))]_vars

\* the same for the calls that select the transform the right half names
SelectedTransform_Sin ==
    [][\A d \in 1..NDev :
          (Executes(d) /\ Head(queue[d]).op \in {"gconv_local", "gconv_remote"}
             /\ Selected(Head(queue[d])) = "sin") =>
             /\ Head(queue[d]).op = "gconv_local" =>
                   y'[d] \in InteriorWith(Head(queue[d]), d, "sin")
             /\ Head(queue[d]).op = "gconv_remote" =>
                   y'[d] \in EdgesWith(Head(queue[d]), d, "sin")]_vars

-----------------------------------------------------------------------------
(* Staging in the boundary kernel of the generalized filter *)

\* the boundary kernels of the generalized filter at the head of a queue
EdgeLaunches == {c \in {Head(queue[d]) : d \in {e \in 1..NDev : queue[e] # <<>>}} : c.op = "gconv_remote"}

\* the work-items in the work-group of g when the groups hold lsz items
Group(g, g_size, lsz) == {i \in 0..(g_size - 1) : i \div lsz = g \div lsz}

\* what the work-group of g has written in the stage before each edge
Stage1(c, g, lsz) == UNION {gremote_stage1_writes(i, c.lhalo, c.rhalo) : i \in Group(g, c.g_size, lsz)}
Stage2(c, g, lsz) == UNION {gremote_stage2_writes(i, c.n, c.lhalo, c.rhalo) : i \in Group(g, c.g_size, lsz)}

\* every place of xbuf work-item g reads for output i has been written in
\* the stage st from place i + (place - g) of the extended partition
StagedFor(st, g, i, lh, rh) ==
    \A p \in gremote_edge_reads(g, lh, rh) :
       /\ \E w \in st : w[1] = p
       /\ \A w \in st : w[1] = p => w[2] = i + (p - g)

\* C32: with partitions of at least left_halo + right_halo elements and any
\* center, every place of the local buffer read for a left-edge or a
\* right-edge output was written in the stage just before, from the place
\* of the extended input that belongs there (here for the division into
\* work-groups that suits the kernel best, a single group).
C32_EdgeStaging ==
    \A c \in EdgeLaunches :
       Wide(c.f) =>
          /\ \A g \in 0..(c.lhalo - 1) :
                StagedFor(Stage1(c, g, c.g_size), g, g, c.lhalo, c.rhalo)
          /\ \A g \in 0..(c.rhalo - 1) :
                StagedFor(Stage2(c, g, c.g_size), g, c.n - c.rhalo + g, c.lhalo, c.rhalo)

\* the same for the filters with left_halo = right_halo
EdgeStaging_Symmetric ==
    \A c \in EdgeLaunches :
       (Wide(c.f) /\ c.lhalo = c.rhalo) =>
          /\ \A g \in 0..(c.lhalo - 1) :
                StagedFor(Stage1(c, g, c.g_size), g, g, c.lhalo, c.rhalo)
          /\ \A g \in 0..(c.rhalo - 1) :
                StagedFor(Stage2(c, g, c.g_size), g, c.n - c.rhalo + g, c.lhalo, c.rhalo)

-----------------------------------------------------------------------------
(* The cache of the generalized filter *)

\* the kernels of the generalized filter a step puts on the queue of device d
GNew(d) == {q \in NewCmds(d) : q.op \in {"gconv_local", "gconv_remote"}}

\* C33: a convolve with transform fn launches on a device of context c only
\* kernels of the program built for (c, fn); a convolve changes the cache
\* entry of its own transform only; and once two transforms are compiled on
\* a context their entries hold kernels of different programs.
C33_TransformKeyedCache ==
    /\ [][\A d \in 1..NDev : \A q \in GNew(d) :
             q.kernel.program \in OkBuilds("gstencil", cur.func, device[d].ctx)]_vars
    /\ [][\A g \in Funcs : exdata'[g] # exdata[g] =>
             (pc = "idle" /\ limits'.calls < limits.calls /\ cur'.func = g)]_vars
    /\ [](\A c \in Contexts : \A g, h \in Funcs :
             (g # h /\ exdata[g].compiled[c] /\ exdata[h].compiled[c]) =>
                /\ exdata[g].conv_local[c].program # exdata[h].conv_local[c].program
                /\ exdata[g].conv_remote[c].program # exdata[h].conv_remote[c].program
                /\ exdata[g].conv_local[c].program \in OkBuilds("gstencil", g, c)
                /\ exdata[g].conv_remote[c].program \in OkBuilds("gstencil", g, c))

\* both transforms are compiled on the first context and a kernel of the
\* second call has been launched
C33_Witness ==
    /\ \A g \in Funcs : exdata[g].compiled[1]
    /\ limits.calls = 0
    /\ \E d \in 1..NDev : \E i \in 1..Len(queue[d]) :
          /\ queue[d][i].op = "gconv_remote"
          /\ queue[d][i].kernel.program \in OkBuilds("gstencil", cur.func, 1)

-----------------------------------------------------------------------------
(* What each queue is used for *)

KernelOps == InteriorOps \cup RemoteOps

\* C34: a filter has secondary queues exactly if left_halo + right_halo > 0;
\* the secondary queue of a device only ever holds copies from the partition
\* of that device into the staging buffer of its filter, and every kernel and
\* every halo-buffer write is on the primary queue of its device.
C34_QueueRoles ==
    /\ [](\A f \in 1..Len(filters) :
            /\ filters[f].has_squeue <=> filters[f].lhalo + filters[f].rhalo > 0
            /\ \A d \in 1..NDev : \A i \in 1..Len(squeue[f][d]) :
                  /\ filters[f].has_squeue
                  /\ squeue[f][d][i].op = "read"
                  /\ squeue[f][d][i].f = f /\ squeue[f][d][i].d = d
                  /\ Region(squeue[f][d][i]) \subseteq 1..Len(hbuf[f]))
    /\ [](\A d \in 1..NDev : \A i \in 1..Len(queue[d]) :
            /\ queue[d][i].op \in KernelOps \cup {"write"}
            /\ queue[d][i].d = d)
    /\ [][\A d \in 1..NDev :
             /\ NewCmds(d) # {} => pc \in {"interior", "boundary", "g_interior", "g_boundary"}
             /\ IssuesCopy => NewCmds(d) = {}]_vars

\* a filter without halos and a filter with halos, a copy of the second on a
\* secondary queue
C34_Witness ==
    /\ Len(filters) = 2
    /\ ~filters[1].has_squeue /\ filters[2].has_squeue
    /\ \E d \in 1..NDev : squeue[2][d] # <<>>

-----------------------------------------------------------------------------
(* The plan of a filter after its construction *)

\* what the planner decided for filter f: halo widths, and for a plain filter
\* the fast/fallback flag and the work-group size of every device
Planned(fs, f) ==
    IF fs[f].kind = "stencil"
    THEN <<fs[f].lhalo, fs[f].rhalo, fs[f].fast_kernel, fs[f].wgs>>
    ELSE <<fs[f].lhalo, fs[f].rhalo>>

\* C35: no step, be it a step of a convolve call, a step of a queue or the
\* construction of another filter, changes left_halo, right_halo, the
\* fast/fallback flags or the work-group sizes of a filter that exists; they
\* stay what the constructor computed from the weights, the context's limit
\* and the device's local memory.
C35_PlanFixedAtConstruction ==
    /\ [][/\ Len(filters') >= Len(filters)
          /\ \A f \in 1..Len(filters) : Planned(filters', f) = Planned(filters, f)]_vars
    /\ [](\A f \in 1..Len(filters) :
            /\ filters[f].lhalo + filters[f].rhalo =
                  (IF filters[f].kind = "stencil" THEN Len(filters[f].s) ELSE filters[f].cols) - 1
            /\ filters[f].kind = "stencil" =>
                  \A d \in 1..NDev :
                     [fast_kernel |-> filters[f].fast_kernel[d], wgs |-> filters[f].wgs[d]] =
                        plan(wgsize[device[d].ctx], Len(filters[f].s),
                             (device[d].lmem - device[d].klmem) \div SizeofT))

\* two plain filters with different plans, the second built and a call on the
\* first finished
C35_Witness ==
    /\ Len(filters) = 2
    /\ filters[1].kind = "stencil" /\ filters[2].kind = "stencil"
    /\ filters[1].wgs # filters[2].wgs
    /\ limits.calls = 0 /\ pc = "idle" /\ cur.f = 1 /\ cur.status = "ok"

====
